---- MODULE Spec2Model ----
(***************************************************************************)
(* Push-to-talk dictation: the Recorder of src/src/ptt_gui/core.py, driven *)
(* by the GTK window of src/src/ptt_gui/app.py (specification Spec) and by *)
(* a single client thread that calls start(), stop() and _callback()       *)
(* directly, as tests/test_recorder.py does (specification SpecApi); the   *)
(* command line program of src/src/ptt.py with its own Recorder            *)
(* (specification SpecCli); SpecControllers is either controller, the      *)
(* window or the command line program, and SpecCycles the same for at most *)
(* MaxCycles recordings; SpecQuit is the window that can be                *)
(* quit.  SpecE2E is one recording of the command line program at the real *)
(* block size and sample rate.  The functions of core.py are called on     *)
(* their own: transcribe (SpecTranscribe), wtype_text and                  *)
(* copy_to_clipboard_xdg (SpecHelpers), rms_level (SpecRms).               *)
(* SpecStopFault is SpecApi with a device whose stop() or close() can      *)
(* raise; SpecRelease is SpecCli with the release loop of run() timed in   *)
(* units of 10 ms; SpecReload is Spec with reload_model; SpecDeliver is    *)
(* the delivery of a transcription result, in the window and in run().     *)
(*                                                                         *)
(* Threads: 0 is the controller thread (the GTK main loop, the API client  *)
(* or the loop of run()); 1..MaxPress are the worker threads that          *)
(* _start_recording spawns to run Recorder.start; every device stream has  *)
(* its own audio thread running Recorder._callback.                        *)
(* Recorder.start and Recorder.stop are split into one step per statement  *)
(* that another thread can observe.  Outside SpecRelease time is not       *)
(* modelled: a wait with a timeout may end at any moment, a wait without   *)
(* one only when its condition holds.                                      *)
(***************************************************************************)
EXTENDS Integers, Sequences, FiniteSets, TLC

\* ------------------------------------------------------------- bounds
MaxPress == 2      \* trigger presses the window accepts (one worker each)
MaxChunks == 2     \* chunks the audio device delivers in a run
MaxOps == 3        \* start() and stop() calls the API client makes
BlockLen == 2      \* samples per chunk (BLOCK_SIZE, scaled down)
MinSamples == 3    \* min_duration * 16000 samples, scaled down: between one chunk and two

Controller == 0
Workers == 1..MaxPress
Threads == {Controller} \cup Workers
NoThread == -1
Streams == 1..(MaxPress + MaxOps)
NoStream == 0

VARIABLES
    frames,        \* Recorder._frames: sequence of chunks
    recording,     \* Recorder._recording
    stream,        \* Recorder._stream: NoStream (None) or a stream
    lock,          \* Recorder._lock: its holder, or NoThread
    streamReady,   \* Recorder._stream_ready (threading.Event)
    observed,      \* the on_chunk invocations so far: <<chunk, "ok" or "raised">>
    onChunk,       \* Recorder._on_chunk is not None
    streamState,   \* sounddevice: each stream "unopened", "open", "active", "closed"
    nextStream,    \* sounddevice: the next stream InputStream() creates
    closes,        \* sounddevice: close() calls each stream has received
    cbPc,          \* audio thread of each stream: "idle", or "append" (flag read true)
    cbChunk,       \* the chunk that audio thread holds
    nextChunk,     \* number of the next chunk the device delivers
    pc,            \* each thread's position
    call,          \* each thread's outermost Recorder call: "none", "start", "stop"
    audio,         \* the value the controller's last stop() returned
    winRecording,  \* PTTWindow._recording
    modelLoaded,   \* PTTWindow._model is not None
    status,        \* style of the status label
    spawned,       \* presses accepted so far (the window spawns a worker thread for each)
    jobs,          \* transcription workers in flight
    engine,        \* history: the buffers handed to transcribe(), one per job
    sink,          \* history: what the controller reported, <<kind, job>>
    log,           \* history: the controller's calls and what they returned
    stopSaw,       \* history: the workers inside start() when the controller last called stop()
    env            \* the surroundings of the program, a record (see EnvOf)

recorderVars == <<frames, recording, stream, lock, streamReady, observed, onChunk>>
deviceVars == <<streamState, nextStream, closes, cbPc, cbChunk, nextChunk>>
threadVars == <<pc, call, audio>>
\* the fields of env
cliMode == env.mode      \* ptt.py --mode: "terminal" or "type"
cliOutput == env.output  \* ptt.py --output is given
stub == env.stub         \* the segments the engine returns from model.transcribe
tmp == env.tmp           \* the temporary files that exist
made == env.made         \* how many temporary files were created
calls == env.calls       \* the paths model.transcribe was called with
arg == env.arg           \* the argument of the function called: a text or a chunk
ret == env.ret           \* how the last call of a function ended
ran == env.ran           \* the helper commands run by the call, in order
elapsed == env.elapsed   \* time.monotonic() - last_key_time in the release loop, in 10 ms
sinceTrigger == env.sinceTrigger  \* history: time since the trigger key last arrived, in 10 ms
ui == env.ui             \* where results are delivered: the window's widgets, the CLI's streams
\* env.models: the model_ref each transcription worker of the window was
\*   given (FALSE: None); env.reloads: the calls of reload_model;
\* env.term: the terminal attributes of ptt.py, "inherited" (as at entry) or "cbreak";
\* ui.items: self._history_items; ui.rows: the HistoryRow children of
\*   self._history_box, first child first; ui.emptyLabel: self._empty_label is
\*   in the box; ui.clipSets: the texts clipboard.set was called with;
\*   ui.threads: the _wtype_with_delay threads started and not yet run;
\*   ui.typed: the texts wtype_text was called with; ui.autoType:
\*   self.auto_type; ui.toasts: the toasts shown; ui.out: what ptt.py wrote
\*   where, in order; ui.text, ui.delivered: the last text delivered, and how many
windowVars == <<winRecording, modelLoaded, status, spawned, jobs, engine, sink>>
vars == <<frames, recording, stream, lock, streamReady, observed, onChunk,
          streamState, nextStream, closes, cbPc, cbChunk, nextChunk,
          pc, call, audio, winRecording, modelLoaded, status, spawned, jobs,
          engine, sink, log,
          stopSaw, env>>

\* ------------------------------------------------------------ helpers
\* The n-th chunk the device delivers: BlockLen samples, all distinct from
\* every other chunk's, so that a lost, repeated or reordered chunk shows.
Chunk(n) == [i \in 1..BlockLen |-> (n - 1) * BlockLen + i]

\* np.concatenate(frames, axis=0).flatten()
RECURSIVE Flatten(_)
Flatten(fs) == IF fs = <<>> THEN <<>> ELSE Head(fs) \o Flatten(Tail(fs))

\* mutant of StopResult: the concatenation loses the first chunk
StopResultDropsFirst(fs) == IF fs # <<>> THEN Flatten(Tail(fs)) ELSE <<>>

\* the stop() return value: the concatenation, or the empty int16 array
StopResult(fs) == IF fs # <<>> THEN Flatten(fs) ELSE <<>>

IsOpen(s) == streamState[s] \in {"open", "active"}

\* mutant of CallbackAppends: the callback does not test the flag
CallbackAlwaysAppends == TRUE

\* `if self._recording:` in _callback
CallbackAppends == recording

\* a worker that has been spawned and whose start() has neither returned nor raised
InFlight(w) == pc[w] \notin {"unborn", "done", "failed"}

\* history: what the controller's call returned; other threads' calls are not logged
Logged(t, entry) == IF t = Controller THEN Append(log, entry) ELSE log

\* where a thread goes when its outermost call returns or raises
Returned(t) == IF t = Controller THEN "ret" ELSE "done"
Raised(t) == IF t = Controller THEN "raised" ELSE "failed"

\* ------------------------------------------------------ initial state
Constructed(oc, at) ==
    /\ frames = <<>>
    /\ recording = FALSE
    /\ stream = NoStream
    /\ lock = NoThread
    /\ streamReady = FALSE
    /\ observed = <<>>
    /\ onChunk = oc
    /\ streamState = [s \in Streams |-> "unopened"]
    /\ nextStream = 1
    /\ closes = [s \in Streams |-> 0]
    /\ cbPc = [s \in Streams |-> "idle"]
    /\ cbChunk = [s \in Streams |-> <<>>]
    /\ nextChunk = 1
    /\ pc = [t \in Threads |-> IF t = Controller THEN at ELSE "unborn"]
    /\ call = [t \in Threads |-> "none"]
    /\ audio = <<>>
    /\ winRecording = FALSE
    /\ modelLoaded = FALSE
    /\ status = ""
    /\ spawned = 0
    /\ jobs = 0
    /\ engine = <<>>
    /\ sink = <<>>
    /\ log = <<>>
    /\ stopSaw = {}

\* the window's recorder: Recorder(on_chunk=self._on_audio_chunk)
\* the surroundings before any function of the module is called: the parsed
\* arguments, the engine stub and the argument of the first call
EnvOf(mode, output, segments, a) ==
    [mode |-> mode, output |-> output, stub |-> segments,
     tmp |-> {}, made |-> 0, calls |-> <<>>,
     arg |-> a, ret |-> <<"none">>, ran |-> <<>>,
     elapsed |-> 0, sinceTrigger |-> 0,
     models |-> <<>>, reloads |-> 0, term |-> "inherited",
     ui |-> [items |-> <<>>, rows |-> <<>>, emptyLabel |-> TRUE, clipSets |-> <<>>,
             threads |-> <<>>, typed |-> <<>>, autoType |-> TRUE, toasts |-> <<>>,
             out |-> <<>>, text |-> <<>>, delivered |-> 0]]

\* argparse defaults of ptt.py, nothing else looked at
EnvDefaults == EnvOf("terminal", FALSE, <<>>, <<>>)

Init == Constructed(TRUE, "idle") /\ env = EnvDefaults

\* the tests' recorder: Recorder() or Recorder(on_chunk=...)
InitApi == (\E oc \in BOOLEAN : Constructed(oc, "idle")) /\ env = EnvDefaults

\* ------------------------------------------------------ Recorder.stop
\* self._recording = False     (no lock held)
StopFlag(t) ==
    /\ pc[t] = "stop_flag"
    /\ recording' = FALSE
    /\ pc' = [pc EXCEPT ![t] = "stop_wait"]
    /\ UNCHANGED <<frames, stream, lock, streamReady, observed, onChunk>>
    /\ UNCHANGED <<deviceVars, call, audio, windowVars, log, stopSaw, env>>

\* self._stream_ready.wait(timeout=2.0): the event is set ...
StopWaitReady(t) ==
    /\ pc[t] = "stop_wait"
    /\ streamReady
    /\ pc' = [pc EXCEPT ![t] = "stop_lock"]
    /\ UNCHANGED <<recorderVars, deviceVars, call, audio, windowVars, log, stopSaw, env>>

\* mutant of StopWaitTimeout: wait() without a timeout never gives up
StopWaitNoTimeout(t) ==
    /\ pc[t] = "stop_wait"
    /\ ~streamReady
    /\ FALSE
    /\ UNCHANGED vars

\* ... or the 2 s run out with the event still clear
StopWaitTimeout(t) ==
    /\ pc[t] = "stop_wait"
    /\ ~streamReady
    /\ pc' = [pc EXCEPT ![t] = "stop_lock"]
    /\ UNCHANGED <<recorderVars, deviceVars, call, audio, windowVars, log, stopSaw, env>>

\* with self._lock:   (blocks, without a timeout, while another thread holds it)
StopLock(t) ==
    /\ pc[t] = "stop_lock"
    /\ lock = NoThread
    /\ lock' = t
    /\ pc' = [pc EXCEPT ![t] = IF stream # NoStream THEN "stop_close" ELSE "stop_copy"]
    /\ UNCHANGED <<frames, recording, stream, streamReady, observed, onChunk>>
    /\ UNCHANGED <<deviceVars, call, audio, windowVars, log, stopSaw, env>>

\* mutant of StopClose: the handle is not reset after the close
StopCloseKeepsHandle(t) ==
    /\ pc[t] = "stop_close"
    /\ cbPc[stream] = "idle"
    /\ streamState' = [streamState EXCEPT ![stream] = "closed"]
    /\ closes' = [closes EXCEPT ![stream] = @ + 1]
    /\ pc' = [pc EXCEPT ![t] = "stop_copy"]
    /\ UNCHANGED <<frames, recording, stream, lock, streamReady, observed, onChunk>>
    /\ UNCHANGED <<nextStream, cbPc, cbChunk, nextChunk, call, audio, windowVars, log, stopSaw, env>>

\* self._stream.stop(); self._stream.close(); self._stream = None
\* stream.stop() returns once the stream's callback is not running.
StopClose(t) ==
    /\ pc[t] = "stop_close"
    /\ cbPc[stream] = "idle"
    /\ streamState' = [streamState EXCEPT ![stream] = "closed"]
    /\ closes' = [closes EXCEPT ![stream] = @ + 1]
    /\ stream' = NoStream
    /\ pc' = [pc EXCEPT ![t] = "stop_copy"]
    /\ UNCHANGED <<frames, recording, lock, streamReady, observed, onChunk>>
    /\ UNCHANGED <<nextStream, cbPc, cbChunk, nextChunk, call, audio, windowVars, log, stopSaw, env>>

\* frames = list(self._frames); release the lock; return the concatenation.
\* Inside start() the value is dropped and start() goes on to its own lock.
StopCopy(t) ==
    /\ pc[t] = "stop_copy"
    /\ lock' = NoThread
    /\ IF call[t] = "start"
         THEN /\ pc' = [pc EXCEPT ![t] = "start_lock"]
              /\ UNCHANGED audio
              /\ UNCHANGED log
         ELSE /\ pc' = [pc EXCEPT ![t] = Returned(t)]
              /\ audio' = IF t = Controller THEN StopResult(frames) ELSE audio
              /\ log' = Logged(t, <<"stop", StopResult(frames)>>)
    /\ UNCHANGED <<frames, recording, stream, streamReady, observed, onChunk>>
    /\ UNCHANGED <<deviceVars, call, windowVars, stopSaw, env>>

\* ----------------------------------------------------- Recorder.start
\* with self._lock:
StartLock(t) ==
    /\ pc[t] = "start_lock"
    /\ lock = NoThread
    /\ lock' = t
    /\ pc' = [pc EXCEPT ![t] = "start_reset"]
    /\ UNCHANGED <<frames, recording, stream, streamReady, observed, onChunk>>
    /\ UNCHANGED <<deviceVars, call, audio, windowVars, log, stopSaw, env>>

\* mutant of StartReset: the accumulator is not reset
StartResetKeepsFrames(t) ==
    /\ pc[t] = "start_reset"
    /\ recording' = TRUE
    /\ streamReady' = FALSE
    /\ pc' = [pc EXCEPT ![t] = "start_open"]
    /\ UNCHANGED <<frames, stream, lock, observed, onChunk>>
    /\ UNCHANGED <<deviceVars, call, audio, windowVars, log, stopSaw, env>>

\* self._frames = []; self._recording = True; self._stream_ready.clear()
StartReset(t) ==
    /\ pc[t] = "start_reset"
    /\ frames' = <<>>
    /\ recording' = TRUE
    /\ streamReady' = FALSE
    /\ pc' = [pc EXCEPT ![t] = "start_open"]
    /\ UNCHANGED <<stream, lock, observed, onChunk>>
    /\ UNCHANGED <<deviceVars, call, audio, windowVars, log, stopSaw, env>>

\* self._stream = sd.InputStream(...): the device opens, ...
StartOpenOk(t) ==
    /\ pc[t] = "start_open"
    /\ stream' = nextStream
    /\ streamState' = [streamState EXCEPT ![nextStream] = "open"]
    /\ nextStream' = nextStream + 1
    /\ pc' = [pc EXCEPT ![t] = "start_stream"]
    /\ UNCHANGED <<frames, recording, lock, streamReady, observed, onChunk>>
    /\ UNCHANGED <<closes, cbPc, cbChunk, nextChunk, call, audio, windowVars, log, stopSaw, env>>

\* ... or InputStream() raises: the with block releases the lock, ...
StartOpenRaise(t) ==
    /\ pc[t] = "start_open"
    /\ lock' = NoThread
    /\ pc' = [pc EXCEPT ![t] = Raised(t)]
    /\ log' = Logged(t, <<"raised", <<>>>>)
    /\ UNCHANGED <<frames, recording, stream, streamReady, observed, onChunk>>
    /\ UNCHANGED <<deviceVars, call, audio, windowVars, stopSaw, env>>

\* ... or the driver never answers: the thread stays in the call.
StartOpenHang(t) ==
    /\ pc[t] = "start_open"
    /\ pc' = [pc EXCEPT ![t] = "hung"]
    /\ UNCHANGED <<recorderVars, deviceVars, call, audio, windowVars, log, stopSaw, env>>

\* self._stream.start(); self._stream_ready.set(); the lock is released
StartStreamOk(t) ==
    /\ pc[t] = "start_stream"
    /\ streamState' = [streamState EXCEPT ![stream] = "active"]
    /\ streamReady' = TRUE
    /\ lock' = NoThread
    /\ pc' = [pc EXCEPT ![t] = Returned(t)]
    /\ log' = Logged(t, <<"start", <<>>>>)
    /\ UNCHANGED <<frames, recording, stream, observed, onChunk>>
    /\ UNCHANGED <<nextStream, closes, cbPc, cbChunk, nextChunk, call, audio, windowVars, stopSaw, env>>

\* self._stream.start() raises: the handle keeps the opened stream
StartStreamRaise(t) ==
    /\ pc[t] = "start_stream"
    /\ lock' = NoThread
    /\ pc' = [pc EXCEPT ![t] = Raised(t)]
    /\ log' = Logged(t, <<"raised", <<>>>>)
    /\ UNCHANGED <<frames, recording, stream, streamReady, observed, onChunk>>
    /\ UNCHANGED <<deviceVars, call, audio, windowVars, stopSaw, env>>

RecorderStep(t) ==
    \/ StopFlag(t) \/ StopWaitReady(t) \/ StopWaitTimeout(t)
    \/ StopLock(t) \/ StopClose(t) \/ StopCopy(t)
    \/ StartLock(t) \/ StartReset(t)
    \/ StartOpenOk(t) \/ StartOpenRaise(t) \/ StartOpenHang(t)
    \/ StartStreamOk(t) \/ StartStreamRaise(t)

\* ------------------------------------------- Recorder._callback (audio thread)
\* The device delivers a chunk on an active stream: `if self._recording:`
CbCheck(s) ==
    /\ streamState[s] = "active"
    /\ cbPc[s] = "idle"
    /\ nextChunk <= MaxChunks
    /\ nextChunk' = nextChunk + 1
    /\ IF CallbackAppends
         THEN /\ cbPc' = [cbPc EXCEPT ![s] = "append"]
              /\ cbChunk' = [cbChunk EXCEPT ![s] = Chunk(nextChunk)]
         ELSE UNCHANGED <<cbPc, cbChunk>>
    /\ log' = Append(log, <<"callback", Chunk(nextChunk)>>)
    /\ UNCHANGED <<recorderVars, streamState, nextStream, closes, threadVars, windowVars, stopSaw, env>>

\* mutant of CbAppend: the observer is not called
CbAppendSkipsObserver(s) ==
    /\ cbPc[s] = "append"
    /\ frames' = Append(frames, cbChunk[s])
    /\ cbPc' = [cbPc EXCEPT ![s] = "idle"]
    /\ cbChunk' = [cbChunk EXCEPT ![s] = <<>>]
    /\ UNCHANGED <<recording, stream, lock, streamReady, observed, onChunk>>
    /\ UNCHANGED <<streamState, nextStream, closes, nextChunk, threadVars, windowVars, log, stopSaw, env>>

\* chunk = indata.copy(); self._frames.append(chunk); `if self._on_chunk is not None:`
CbAppend(s) ==
    /\ cbPc[s] = "append"
    /\ frames' = Append(frames, cbChunk[s])
    /\ IF onChunk
         THEN /\ cbPc' = [cbPc EXCEPT ![s] = "observe"]
              /\ UNCHANGED cbChunk
         ELSE /\ cbPc' = [cbPc EXCEPT ![s] = "idle"]
              /\ cbChunk' = [cbChunk EXCEPT ![s] = <<>>]
    /\ UNCHANGED <<recording, stream, lock, streamReady, observed, onChunk>>
    /\ UNCHANGED <<streamState, nextStream, closes, nextChunk, threadVars, windowVars, log, stopSaw, env>>

\* self._on_chunk(chunk.flatten()) returns, ...
CbObserveOk(s) ==
    /\ cbPc[s] = "observe"
    /\ observed' = Append(observed, <<cbChunk[s], "ok">>)
    /\ cbPc' = [cbPc EXCEPT ![s] = "idle"]
    /\ cbChunk' = [cbChunk EXCEPT ![s] = <<>>]
    /\ UNCHANGED <<frames, recording, stream, lock, streamReady, onChunk>>
    /\ UNCHANGED <<streamState, nextStream, closes, nextChunk, threadVars, windowVars, log, stopSaw, env>>

\* mutant of CbObserveRaise: the exception leaves the callback
CbObserveRaisePropagates(s) ==
    /\ cbPc[s] = "observe"
    /\ observed' = Append(observed, <<cbChunk[s], "raised">>)
    /\ cbPc' = [cbPc EXCEPT ![s] = "crashed"]
    /\ UNCHANGED <<frames, recording, stream, lock, streamReady, onChunk>>
    /\ UNCHANGED <<streamState, nextStream, closes, cbChunk, nextChunk, threadVars, windowVars, log, stopSaw, env>>

\* ... or raises: `except Exception: pass`
CbObserveRaise(s) ==
    /\ cbPc[s] = "observe"
    /\ observed' = Append(observed, <<cbChunk[s], "raised">>)
    /\ cbPc' = [cbPc EXCEPT ![s] = "idle"]
    /\ cbChunk' = [cbChunk EXCEPT ![s] = <<>>]
    /\ UNCHANGED <<frames, recording, stream, lock, streamReady, onChunk>>
    /\ UNCHANGED <<streamState, nextStream, closes, nextChunk, threadVars, windowVars, log, stopSaw, env>>

\* the audio thread of stream s, with any observer
AudioStep(s) == CbCheck(s) \/ CbAppend(s) \/ CbObserveOk(s) \/ CbObserveRaise(s)

\* the audio thread of stream s with the window's observer, _on_audio_chunk,
\* which computes a level and queues a redraw: it returns
WinAudioStep(s) == CbCheck(s) \/ CbAppend(s) \/ CbObserveOk(s)

\* ------------------------------------------------------------- PTTWindow
\* _on_model_loaded
OnModelLoaded ==
    /\ pc[Controller] = "idle"
    /\ ~modelLoaded
    /\ modelLoaded' = TRUE
    /\ status' = "ready"
    /\ UNCHANGED <<recorderVars, deviceVars, threadVars, winRecording, spawned, jobs, engine, sink, log, stopSaw, env>>

\* _on_mic_press / _on_key_pressed -> _start_recording
StartRecording ==
    /\ pc[Controller] = "idle"
    /\ ~winRecording /\ modelLoaded
    /\ spawned < MaxPress
    /\ winRecording' = TRUE
    /\ status' = "recording"
    /\ spawned' = spawned + 1
    /\ pc' = [pc EXCEPT ![spawned + 1] = "stop_flag"]
    /\ call' = [call EXCEPT ![spawned + 1] = "start"]
    /\ UNCHANGED <<recorderVars, deviceVars, audio, modelLoaded, jobs, engine, sink, log, stopSaw, env>>

\* _on_mic_release / _on_key_released -> _stop_recording, up to self._recorder.stop()
StopRecordingBegin ==
    /\ pc[Controller] = "idle"
    /\ winRecording
    /\ winRecording' = FALSE
    /\ pc' = [pc EXCEPT ![Controller] = "stop_flag"]
    /\ call' = [call EXCEPT ![Controller] = "stop"]
    /\ stopSaw' = {w \in Workers : InFlight(w)}
    /\ log' = Append(log, <<"call_stop", <<>>>>)
    /\ UNCHANGED <<recorderVars, deviceVars, audio, modelLoaded, status, spawned, jobs, engine, sink, env>>

\* mutant of StopRecordingEnd: the duration is not checked
StopRecordingEndNoCheck ==
    /\ pc[Controller] = "ret"
    /\ call[Controller] = "stop"
    /\ pc' = [pc EXCEPT ![Controller] = "idle"]
    /\ call' = [call EXCEPT ![Controller] = "none"]
    /\ status' = "transcribing"
    /\ jobs' = jobs + 1
    /\ engine' = Append(engine, audio)
    /\ env' = [env EXCEPT !.models = Append(env.models, modelLoaded)]
    /\ UNCHANGED sink
    /\ UNCHANGED <<recorderVars, deviceVars, audio, winRecording, modelLoaded, spawned, log, stopSaw>>

\* _stop_recording after stop() returned: the duration check, then either
\* _reset_to_ready and the toast, or the transcription worker
StopRecordingEnd ==
    /\ pc[Controller] = "ret"
    /\ call[Controller] = "stop"
    /\ pc' = [pc EXCEPT ![Controller] = "idle"]
    /\ call' = [call EXCEPT ![Controller] = "none"]
    /\ IF Len(audio) < MinSamples
         THEN /\ status' = "ready"
              /\ sink' = Append(sink, <<"too_short", 0>>)
              /\ UNCHANGED <<jobs, engine, env>>
         ELSE /\ status' = "transcribing"
              /\ jobs' = jobs + 1
              /\ engine' = Append(engine, audio)
              /\ env' = [env EXCEPT !.models = Append(env.models, modelLoaded)]
              /\ UNCHANGED sink
    /\ UNCHANGED <<recorderVars, deviceVars, audio, winRecording, modelLoaded, spawned, log, stopSaw>>

\* the jobs whose outcome has not reached the controller
Pending == {j \in 1..Len(engine) : \A k \in 1..Len(sink) : sink[k][2] # j}

\* model_ref = self._model; Thread(target=self._transcribe_worker, args=(model_ref, audio))
\* is part of StopRecordingEnd: models records the model_ref of each job.

\* _transcribe_worker got a text, empty or not: _on_transcription_done
OnTranscriptionDone ==
    /\ pc[Controller] = "idle"
    /\ \E j \in Pending : \E kind \in {"result", "no_speech"} :
           sink' = Append(sink, <<kind, j>>)
    /\ jobs' = jobs - 1
    /\ status' = "ready"
    /\ UNCHANGED <<recorderVars, deviceVars, threadVars, winRecording, modelLoaded, spawned, engine, log, stopSaw, env>>

\* transcribe() raised in _transcribe_worker: _on_transcription_error
OnTranscriptionError ==
    /\ pc[Controller] = "idle"
    /\ \E j \in Pending : sink' = Append(sink, <<"error", j>>)
    /\ jobs' = jobs - 1
    /\ status' = "ready"
    /\ UNCHANGED <<recorderVars, deviceVars, threadVars, winRecording, modelLoaded, spawned, engine, log, stopSaw, env>>

Next ==
    \/ OnModelLoaded
    \/ StartRecording
    \/ StopRecordingBegin
    \/ StopRecordingEnd
    \/ OnTranscriptionDone
    \/ OnTranscriptionError
    \/ \E t \in Threads : RecorderStep(t)
    \/ \E s \in Streams : WinAudioStep(s)

Spec == Init /\ [][Next]_vars

\* ------------------------------------------------ reload from the settings
MaxReloads == 1

\* SettingsDialog._on_apply -> reload_model: self._model = None, the button is
\* made insensitive, _load_model_async shows the loading status and starts the
\* loader, whose result arrives in _on_model_loaded
ReloadModel ==
    /\ pc[Controller] = "idle"
    /\ modelLoaded
    /\ env.reloads < MaxReloads
    /\ modelLoaded' = FALSE
    /\ status' = "loading"
    /\ env' = [env EXCEPT !.reloads = env.reloads + 1]
    /\ UNCHANGED <<recorderVars, deviceVars, threadVars, winRecording, spawned, jobs, engine, sink, log, stopSaw>>

NextReload ==
    \/ Next
    \/ ReloadModel

SpecReload == Init /\ [][NextReload]_vars

\* app.quit (Ctrl+Q) or the window is closed: app.run returns and main() ends
\* the process, the daemon threads with it
Quit ==
    /\ pc[Controller] = "idle"
    /\ pc' = [pc EXCEPT ![Controller] = "exited"]
    /\ UNCHANGED <<recorderVars, deviceVars, call, audio, windowVars, log, stopSaw, env>>

\* the window until the process has ended: the worker and audio threads run
\* only while it lives
Running == pc[Controller] # "exited"
NextQuit ==
    \/ OnModelLoaded
    \/ StartRecording
    \/ StopRecordingBegin
    \/ StopRecordingEnd
    \/ OnTranscriptionDone
    \/ OnTranscriptionError
    \/ Quit
    \/ \E t \in Threads : Running /\ RecorderStep(t)
    \/ \E s \in Streams : Running /\ WinAudioStep(s)

SpecQuit == Init /\ [][NextQuit]_vars

\* ------------------------------------------------------- the API client
\* calls of start() and stop() the client has made so far
ClientCalls == Cardinality({j \in 1..Len(log) : log[j][1] \in {"call_start", "call_stop"}})

\* rec.start()
ApiStart ==
    /\ pc[Controller] = "idle"
    /\ ClientCalls < MaxOps
    /\ pc' = [pc EXCEPT ![Controller] = "stop_flag"]
    /\ call' = [call EXCEPT ![Controller] = "start"]
    /\ log' = Append(log, <<"call_start", <<nextStream>>>>)
    /\ UNCHANGED <<recorderVars, deviceVars, audio, windowVars, stopSaw, env>>

\* rec.stop()
ApiStop ==
    /\ pc[Controller] = "idle"
    /\ ClientCalls < MaxOps
    /\ pc' = [pc EXCEPT ![Controller] = "stop_flag"]
    /\ call' = [call EXCEPT ![Controller] = "stop"]
    /\ log' = Append(log, <<"call_stop", <<>>>>)
    /\ UNCHANGED <<recorderVars, deviceVars, audio, windowVars, stopSaw, env>>

\* rec._callback(chunk, ...) called by the client itself, as the tests do, while
\* no device stream is delivering (one stream's callbacks never overlap)
ApiCallback ==
    /\ pc[Controller] = "idle"
    /\ \A s \in Streams : streamState[s] # "active"
    /\ nextChunk <= MaxChunks
    /\ nextChunk' = nextChunk + 1
    /\ IF CallbackAppends
         THEN /\ frames' = Append(frames, Chunk(nextChunk))
              /\ IF onChunk
                   THEN \E o \in {"ok", "raised"} :
                            observed' = Append(observed, <<Chunk(nextChunk), o>>)
                   ELSE UNCHANGED observed
         ELSE UNCHANGED <<frames, observed>>
    /\ log' = Append(log, <<"callback", Chunk(nextChunk)>>)
    /\ UNCHANGED <<recording, stream, lock, streamReady, onChunk>>
    /\ UNCHANGED <<streamState, nextStream, closes, cbPc, cbChunk, threadVars, windowVars, stopSaw, env>>

\* the call has returned (or raised) to the client, which goes on
ApiReturn ==
    /\ pc[Controller] \in {"ret", "raised"}
    /\ pc' = [pc EXCEPT ![Controller] = "idle"]
    /\ call' = [call EXCEPT ![Controller] = "none"]
    /\ UNCHANGED <<recorderVars, deviceVars, audio, windowVars, log, stopSaw, env>>

NextApi ==
    \/ ApiStart
    \/ ApiStop
    \/ ApiCallback
    \/ ApiReturn
    \/ RecorderStep(Controller)
    \/ \E s \in Streams : AudioStep(s)

SpecApi == InitApi /\ [][NextApi]_vars

\* ------------------------------------------- stop() with a failing device
\* mutant of StopCloseRaise: without the finally clause the handle is kept
StopCloseRaiseKeepsHandle(t) ==
    /\ pc[t] = "stop_close"
    /\ \E at \in {"stop", "close"} :
          IF at = "close"
            THEN /\ cbPc[stream] = "idle"
                 /\ streamState' = [streamState EXCEPT ![stream] = "open"]
            ELSE UNCHANGED streamState
    /\ pc' = [pc EXCEPT ![t] = "stop_copy"]
    /\ log' = Logged(t, <<"close_raised", <<>>>>)
    /\ UNCHANGED <<frames, recording, stream, lock, streamReady, observed, onChunk>>
    /\ UNCHANGED <<nextStream, closes, cbPc, cbChunk, nextChunk, call, audio, windowVars, stopSaw, env>>

\* self._stream.stop() raises (the stream stays as it was), or it returns and
\* self._stream.close() raises (the stream is stopped, not closed):
\* `except Exception: pass`, `finally: self._stream = None`
StopCloseRaise(t) ==
    /\ pc[t] = "stop_close"
    /\ \E at \in {"stop", "close"} :
          IF at = "close"
            THEN /\ cbPc[stream] = "idle"
                 /\ streamState' = [streamState EXCEPT ![stream] = "open"]
            ELSE UNCHANGED streamState
    /\ stream' = NoStream
    /\ pc' = [pc EXCEPT ![t] = "stop_copy"]
    /\ log' = Logged(t, <<"close_raised", <<>>>>)
    /\ UNCHANGED <<frames, recording, lock, streamReady, observed, onChunk>>
    /\ UNCHANGED <<nextStream, closes, cbPc, cbChunk, nextChunk, call, audio, windowVars, stopSaw, env>>

MaxFaultOps == 2   \* start() and stop() calls the client makes of the failing device

\* the API client, for at most MaxFaultOps calls, with a device whose stop()
\* or close() can fail
NextStopFault ==
    \/ ClientCalls < MaxFaultOps /\ ApiStart
    \/ ClientCalls < MaxFaultOps /\ ApiStop
    \/ ApiCallback
    \/ ApiReturn
    \/ RecorderStep(Controller)
    \/ \E s \in Streams : AudioStep(s)
    \/ StopCloseRaise(Controller)

SpecStopFault == InitApi /\ [][NextStopFault]_vars

\* ===================================================================
\* The command line program (src/src/ptt.py): one thread runs the loop of
\* run() and the calls of its own Recorder, which has no lock, no event and
\* no observer; the device's audio thread runs Recorder._callback.
\* ===================================================================
\* mutant of Finally: the finally block does not restore the terminal
FinallyKeepsTerm(e) == e

\* finally: termios.tcsetattr(sys.stdin, termios.TCSADRAIN, old_settings),
\* before recorder.stop()
Finally(e) == [e EXCEPT !.term = "inherited"]

\* run() up to the loop: the arguments are parsed, Recorder()
InitCli ==
    /\ Constructed(FALSE, "cli_load")
    /\ \E mode \in {"terminal", "type"} : \E output \in BOOLEAN :
          env = EnvOf(mode, output, <<>>, <<>>)

\* model = load_model(args.model); old_settings = termios.tcgetattr(sys.stdin);
\* tty.setcbreak(sys.stdin.fileno()); "[ Ready ]"
CliModelLoaded ==
    /\ pc[Controller] = "cli_load"
    /\ modelLoaded' = TRUE
    /\ status' = "ready"
    /\ pc' = [pc EXCEPT ![Controller] = "cli_ready"]
    /\ env' = [env EXCEPT !.term = "cbreak"]
    /\ UNCHANGED <<recorderVars, deviceVars, call, audio, winRecording, spawned, jobs, engine, sink, log, stopSaw>>

\* `while not is_key_pressed(trigger)` ends: recorder.start() is called
CliKeyPressed ==
    /\ pc[Controller] = "cli_ready"
    /\ spawned < MaxPress
    /\ spawned' = spawned + 1
    /\ pc' = [pc EXCEPT ![Controller] = "cli_start"]
    /\ call' = [call EXCEPT ![Controller] = "start"]
    /\ UNCHANGED <<recorderVars, deviceVars, audio, winRecording, modelLoaded, status, jobs, engine, sink, log, stopSaw, env>>

\* Recorder.start: self.frames = []; self.recording = True;
\* self.stream = sd.InputStream(...) returns a stream, ...
CliStartOpenOk ==
    /\ pc[Controller] = "cli_start"
    /\ frames' = <<>>
    /\ recording' = TRUE
    /\ stream' = nextStream
    /\ streamState' = [streamState EXCEPT ![nextStream] = "open"]
    /\ nextStream' = nextStream + 1
    /\ pc' = [pc EXCEPT ![Controller] = "cli_start_stream"]
    /\ UNCHANGED <<lock, streamReady, observed, onChunk>>
    /\ UNCHANGED <<closes, cbPc, cbChunk, nextChunk, call, audio, windowVars, log, stopSaw, env>>

\* ... or raises: the exception leaves the loop for the finally block of run()
CliStartOpenRaise ==
    /\ pc[Controller] = "cli_start"
    /\ frames' = <<>>
    /\ recording' = TRUE
    /\ pc' = [pc EXCEPT ![Controller] = "cli_stop_flag"]
    /\ call' = [call EXCEPT ![Controller] = "final_error"]
    /\ UNCHANGED <<stream, lock, streamReady, observed, onChunk>>
    /\ env' = Finally(env)
    /\ UNCHANGED <<deviceVars, audio, windowVars, log, stopSaw>>

\* self.stream.start() returns; "[ REC ]"
CliStartStreamOk ==
    /\ pc[Controller] = "cli_start_stream"
    /\ streamState' = [streamState EXCEPT ![stream] = "active"]
    /\ status' = "recording"
    /\ pc' = [pc EXCEPT ![Controller] = "cli_rec"]
    /\ UNCHANGED <<recorderVars, nextStream, closes, cbPc, cbChunk, nextChunk>>
    /\ UNCHANGED <<call, audio, winRecording, modelLoaded, spawned, jobs, engine, sink, log, stopSaw, env>>

\* self.stream.start() raises
CliStartStreamRaise ==
    /\ pc[Controller] = "cli_start_stream"
    /\ pc' = [pc EXCEPT ![Controller] = "cli_stop_flag"]
    /\ call' = [call EXCEPT ![Controller] = "final_error"]
    /\ env' = Finally(env)
    /\ UNCHANGED <<recorderVars, deviceVars, audio, windowVars, log, stopSaw>>

\* no key for RELEASE_TIMEOUT: the release loop breaks, recorder.stop() is called
CliRelease ==
    /\ pc[Controller] = "cli_rec"
    /\ pc' = [pc EXCEPT ![Controller] = "cli_stop_flag"]
    /\ call' = [call EXCEPT ![Controller] = "stop"]
    /\ UNCHANGED <<recorderVars, deviceVars, audio, windowVars, log, stopSaw, env>>

\* Ctrl+C: KeyboardInterrupt, "Bye!", the finally block
CliInterrupt ==
    /\ pc[Controller] \in {"cli_ready", "cli_rec", "cli_transcribe"}
    /\ pc' = [pc EXCEPT ![Controller] = "cli_stop_flag"]
    /\ call' = [call EXCEPT ![Controller] = "final_bye"]
    /\ env' = Finally(env)
    /\ UNCHANGED <<recorderVars, deviceVars, audio, windowVars, log, stopSaw>>

\* Recorder.stop: self.recording = False; `if self.stream:`
CliStopFlag ==
    /\ pc[Controller] = "cli_stop_flag"
    /\ recording' = FALSE
    /\ pc' = [pc EXCEPT ![Controller] =
                 IF stream # NoStream THEN "cli_stop_close" ELSE "cli_stop_ret"]
    /\ UNCHANGED <<frames, stream, lock, streamReady, observed, onChunk>>
    /\ UNCHANGED <<deviceVars, call, audio, windowVars, log, stopSaw, env>>

\* self.stream.stop(); self.stream.close(); self.stream = None
CliStopClose ==
    /\ pc[Controller] = "cli_stop_close"
    /\ cbPc[stream] = "idle"
    /\ streamState' = [streamState EXCEPT ![stream] = "closed"]
    /\ closes' = [closes EXCEPT ![stream] = @ + 1]
    /\ stream' = NoStream
    /\ pc' = [pc EXCEPT ![Controller] = "cli_stop_ret"]
    /\ UNCHANGED <<frames, recording, lock, streamReady, observed, onChunk>>
    /\ UNCHANGED <<nextStream, cbPc, cbChunk, nextChunk, call, audio, windowVars, log, stopSaw, env>>

\* stop() returns the concatenation: to the loop, or to the finally block,
\* after which run() ends ("cli_exit") or the exception goes on ("cli_died")
CliStopReturn ==
    /\ pc[Controller] = "cli_stop_ret"
    /\ IF call[Controller] = "stop"
         THEN /\ audio' = StopResult(frames)
              /\ pc' = [pc EXCEPT ![Controller] = "cli_check"]
         ELSE /\ UNCHANGED audio
              /\ pc' = [pc EXCEPT ![Controller] =
                           IF call[Controller] = "final_bye" THEN "cli_exit" ELSE "cli_died"]
    /\ UNCHANGED <<recorderVars, deviceVars, call, windowVars, log, stopSaw, env>>

\* `if duration < 0.3:` "Too short", continue; else "Transcribing ..."
CliCheckDuration ==
    /\ pc[Controller] = "cli_check"
    /\ IF Len(audio) < MinSamples
         THEN /\ status' = "ready"
              /\ sink' = Append(sink, <<"too_short", 0>>)
              /\ pc' = [pc EXCEPT ![Controller] = "cli_ready"]
              /\ UNCHANGED engine
         ELSE /\ status' = "transcribing"
              /\ engine' = Append(engine, audio)
              /\ pc' = [pc EXCEPT ![Controller] = "cli_transcribe"]
              /\ UNCHANGED sink
    /\ UNCHANGED <<recorderVars, deviceVars, call, audio, winRecording, modelLoaded, spawned, jobs, log, stopSaw, env>>

\* text = transcribe(model, audio) returns.  Empty: "No speech detected".
\* Otherwise "[ OK ]" and, in terminal mode, print(text); in type mode the
\* terminal is restored (termios.tcsetattr(..., old_settings)) and
\* wtype_text(text) comes next; then the output file, if one was asked for
CliTranscribed ==
    /\ pc[Controller] = "cli_transcribe"
    /\ \/ /\ sink' = Append(sink, <<"no_speech", Len(engine)>>)
          /\ status' = "ready"
          /\ pc' = [pc EXCEPT ![Controller] = "cli_ready"]
          /\ UNCHANGED env
       \/ /\ cliMode = "terminal"
          /\ sink' = Append(sink, <<"result", Len(engine)>>)
          /\ status' = IF cliOutput THEN status ELSE "ready"
          /\ pc' = [pc EXCEPT ![Controller] = IF cliOutput THEN "cli_file" ELSE "cli_ready"]
          /\ UNCHANGED env
       \/ /\ cliMode = "type"
          /\ pc' = [pc EXCEPT ![Controller] = "cli_type"]
          /\ env' = [env EXCEPT !.term = "inherited"]
          /\ UNCHANGED <<sink, status>>
    /\ UNCHANGED <<recorderVars, deviceVars, call, audio, winRecording, modelLoaded, spawned, jobs, engine, log, stopSaw>>

\* wtype_text(text): subprocess.run(["wtype", "--", text], check=True, timeout=5)
\* returns: the text is typed
CliTypeOk ==
    /\ pc[Controller] = "cli_type"
    /\ sink' = Append(sink, <<"result", Len(engine)>>)
    /\ status' = IF cliOutput THEN status ELSE "ready"
    /\ pc' = [pc EXCEPT ![Controller] = IF cliOutput THEN "cli_file" ELSE "cli_ready"]
    /\ env' = [env EXCEPT !.term = "cbreak"]   \* tty.setcbreak(sys.stdin.fileno())
    /\ UNCHANGED <<recorderVars, deviceVars, call, audio, winRecording, modelLoaded, spawned, jobs, engine, log, stopSaw>>

\* wtype is missing (FileNotFoundError) or exits non-zero (CalledProcessError):
\* wtype_text writes the error to stderr and returns
CliTypeReported ==
    /\ pc[Controller] = "cli_type"
    /\ sink' = Append(sink, <<"sink_error", Len(engine)>>)
    /\ status' = IF cliOutput THEN status ELSE "ready"
    /\ pc' = [pc EXCEPT ![Controller] = IF cliOutput THEN "cli_file" ELSE "cli_ready"]
    /\ env' = [env EXCEPT !.term = "cbreak"]   \* tty.setcbreak(sys.stdin.fileno())
    /\ UNCHANGED <<recorderVars, deviceVars, call, audio, winRecording, modelLoaded, spawned, jobs, engine, log, stopSaw>>

\* wtype runs longer than 5 s: subprocess.TimeoutExpired, which wtype_text
\* does not catch and no except clause of run() matches
CliTypeTimeout ==
    /\ pc[Controller] = "cli_type"
    /\ pc' = [pc EXCEPT ![Controller] = "cli_stop_flag"]
    /\ call' = [call EXCEPT ![Controller] = "final_error"]
    /\ env' = Finally(env)
    /\ UNCHANGED <<recorderVars, deviceVars, audio, windowVars, log, stopSaw>>

\* with open(args.output, "a") as f: f.write(text + "\n")
CliFileOk ==
    /\ pc[Controller] = "cli_file"
    /\ sink' = Append(sink, <<"filed", Len(engine)>>)
    /\ status' = "ready"
    /\ pc' = [pc EXCEPT ![Controller] = "cli_ready"]
    /\ UNCHANGED <<recorderVars, deviceVars, call, audio, winRecording, modelLoaded, spawned, jobs, engine, log, stopSaw, env>>

\* open() or write() raises OSError: no except clause of run() matches
CliFileRaise ==
    /\ pc[Controller] = "cli_file"
    /\ pc' = [pc EXCEPT ![Controller] = "cli_stop_flag"]
    /\ call' = [call EXCEPT ![Controller] = "final_error"]
    /\ env' = Finally(env)
    /\ UNCHANGED <<recorderVars, deviceVars, audio, windowVars, log, stopSaw>>

\* transcribe(model, audio) raises: no except clause of run() matches
CliTranscribeRaise ==
    /\ pc[Controller] = "cli_transcribe"
    /\ pc' = [pc EXCEPT ![Controller] = "cli_stop_flag"]
    /\ call' = [call EXCEPT ![Controller] = "final_error"]
    /\ env' = Finally(env)
    /\ UNCHANGED <<recorderVars, deviceVars, audio, windowVars, log, stopSaw>>

\* the audio thread of stream s: `if self.recording: self.frames.append(indata.copy())`
CliAudioStep(s) == CbCheck(s) \/ CbAppend(s)

NextCli ==
    \/ CliModelLoaded
    \/ CliKeyPressed
    \/ CliStartOpenOk
    \/ CliStartOpenRaise
    \/ CliStartStreamOk
    \/ CliStartStreamRaise
    \/ CliRelease
    \/ CliInterrupt
    \/ CliStopFlag
    \/ CliStopClose
    \/ CliStopReturn
    \/ CliCheckDuration
    \/ CliTranscribed
    \/ CliTypeOk
    \/ CliTypeReported
    \/ CliTypeTimeout
    \/ CliFileOk
    \/ CliFileRaise
    \/ CliTranscribeRaise
    \/ \E s \in Streams : CliAudioStep(s)

SpecCli == InitCli /\ [][NextCli]_vars

\* -------------------------------------------------------------------
\* The release loop of run() with its clock, in units of 10 ms
\* -------------------------------------------------------------------
\* RELEASE_TIMEOUT = 0.25
ReleaseTicks == 25
\* select.select([sys.stdin], [], [], 0.05)
PollTicks == 5
\* the drain loop ends with one select of 0.01 that finds nothing
DrainTicks == 1
\* longest time without the trigger key that is followed
MaxQuiet == 40
\* what can be read from the terminal while recording, Ctrl+C apart
Keys == {"trigger", "other"}

\* `if ch == "\x03": raise KeyboardInterrupt`, otherwise
\* last_key_time = time.monotonic(), whatever ch is
Renews(ch) == TRUE

\* `if time.monotonic() - last_key_time > RELEASE_TIMEOUT: break`
TimedOut(t) == t > ReleaseTicks

\* select returns d ticks into the poll with a character that is not Ctrl+C;
\* the rest of the input is drained
CliPollKey ==
    /\ pc[Controller] = "cli_rec"
    /\ \E ch \in Keys : \E d \in 0..(PollTicks - 1) :
          /\ ch = "trigger" \/ sinceTrigger + d + DrainTicks <= MaxQuiet
          /\ env' = [env EXCEPT
                !.elapsed = IF Renews(ch) THEN 0 ELSE elapsed + d + DrainTicks,
                !.sinceTrigger = IF ch = "trigger" THEN 0 ELSE sinceTrigger + d + DrainTicks]
    /\ UNCHANGED <<recorderVars, deviceVars, threadVars, windowVars, log, stopSaw>>

\* select times out; past RELEASE_TIMEOUT the loop breaks and
\* recorder.stop() is called
CliPollIdle ==
    /\ pc[Controller] = "cli_rec"
    /\ IF TimedOut(elapsed + PollTicks)
       THEN /\ pc' = [pc EXCEPT ![Controller] = "cli_stop_flag"]
            /\ call' = [call EXCEPT ![Controller] = "stop"]
            /\ env' = [env EXCEPT !.elapsed = 0, !.sinceTrigger = 0]
       ELSE /\ env' = [env EXCEPT !.elapsed = elapsed + PollTicks,
                                  !.sinceTrigger = sinceTrigger + PollTicks]
            /\ UNCHANGED <<pc, call>>
    /\ UNCHANGED <<recorderVars, deviceVars, audio, windowVars, log, stopSaw>>

NextRelease ==
    \/ CliModelLoaded
    \/ CliKeyPressed
    \/ CliStartOpenOk
    \/ CliStartOpenRaise
    \/ CliStartStreamOk
    \/ CliStartStreamRaise
    \/ CliPollKey
    \/ CliPollIdle
    \/ CliInterrupt
    \/ CliStopFlag
    \/ CliStopClose
    \/ CliStopReturn
    \/ CliCheckDuration
    \/ CliTranscribed
    \/ CliTypeOk
    \/ CliTypeReported
    \/ CliTypeTimeout
    \/ CliFileOk
    \/ CliFileRaise
    \/ CliTranscribeRaise
    \/ \E s \in Streams : CliAudioStep(s)

\* the command line program with the clock of its release loop
SpecRelease == InitCli /\ [][NextRelease]_vars

\* either controller: the window or the command line program
SpecControllers == (Init \/ InitCli) /\ [][Next \/ NextCli]_vars

\* trigger presses either controller accepts in SpecCycles
MaxCycles == 1

\* either controller, for at most MaxCycles recordings
NextCycles ==
    \/ OnModelLoaded
    \/ spawned < MaxCycles /\ StartRecording
    \/ StopRecordingBegin
    \/ StopRecordingEnd
    \/ OnTranscriptionDone
    \/ OnTranscriptionError
    \/ \E t \in Threads : RecorderStep(t)
    \/ \E s \in Streams : WinAudioStep(s)
    \/ CliModelLoaded
    \/ spawned < MaxCycles /\ CliKeyPressed
    \/ CliStartOpenOk
    \/ CliStartOpenRaise
    \/ CliStartStreamOk
    \/ CliStartStreamRaise
    \/ CliRelease
    \/ CliInterrupt
    \/ CliStopFlag
    \/ CliStopClose
    \/ CliStopReturn
    \/ CliCheckDuration
    \/ CliTranscribed
    \/ CliTypeOk
    \/ CliTypeReported
    \/ CliTypeTimeout
    \/ CliFileOk
    \/ CliFileRaise
    \/ CliTranscribeRaise
    \/ \E s \in Streams : CliAudioStep(s)

SpecCycles == (Init \/ InitCli) /\ [][NextCycles]_vars

\* ===================================================================
\* One recording from the trigger to the sink, at the real sizes
\* ===================================================================
\* The command line program in its default mode, one key press: the device
\* delivers blocks of BLOCK_SIZE samples, the duration is measured in samples
\* at SAMPLE_RATE, and the engine is a stub returning fixed segments.

SAMPLE_RATE == 16000
BLOCK_SIZE == 1024
\* `duration < 0.3`, in tenths of a second
MinDurationTenths == 3
\* most blocks delivered during the one recording
MaxE2EChunks == 5
\* the sample values a delivered block is filled with
E2EValues == {0, 100}

\* a text is the sequence of its characters
Test == <<"t", "e", "s", "t">>
Space == <<" ">>
StubSegments == {<<>>, <<Test>>, <<Space \o Test>>, <<Space>>, <<Test, Test>>}

\* " ".join(seg.text for seg in segments)
RECURSIVE Join(_)
Join(segs) ==
    IF segs = <<>> THEN <<>>
    ELSE IF Len(segs) = 1 THEN segs[1]
    ELSE segs[1] \o Space \o Join(Tail(segs))

\* str.strip(): leading and trailing white space removed
RECURSIVE Strip(_)
Strip(t) ==
    IF t = <<>> THEN <<>>
    ELSE IF Head(t) = " " THEN Strip(Tail(t))
    ELSE IF t[Len(t)] = " " THEN Strip(SubSeq(t, 1, Len(t) - 1))
    ELSE t

\* the text transcribe() returns for the segments of the engine
TranscribedText(segs) == Strip(Join(segs))

\* indata of one callback: BLOCK_SIZE samples of one value
Block(v) == [i \in 1..BLOCK_SIZE |-> v]

\* mutant of TooShort: every recording is long enough
TooShortNever(buf) == FALSE

\* duration = len(audio) / SAMPLE_RATE; duration < 0.3
TooShort(buf) == Len(buf) * 10 < MinDurationTenths * SAMPLE_RATE

InitE2E ==
    /\ Constructed(FALSE, "e2e_ready")
    /\ \E segments \in StubSegments : env = EnvOf("terminal", FALSE, segments, <<>>)

\* the key is pressed: recorder.start()
E2EEngage ==
    /\ pc[Controller] = "e2e_ready"
    /\ frames' = <<>>
    /\ recording' = TRUE
    /\ stream' = nextStream
    /\ streamState' = [streamState EXCEPT ![nextStream] = "active"]
    /\ nextStream' = nextStream + 1
    /\ status' = "recording"
    /\ pc' = [pc EXCEPT ![Controller] = "e2e_rec"]
    /\ UNCHANGED <<lock, streamReady, observed, onChunk, closes, cbPc, cbChunk, nextChunk, call, audio, winRecording, modelLoaded, spawned, jobs, engine, sink, log, stopSaw, env>>

\* _callback(indata, ...) while the key is held
E2EDeliver ==
    /\ pc[Controller] = "e2e_rec"
    /\ Len(frames) < MaxE2EChunks
    /\ \E v \in E2EValues :
          frames' = IF recording THEN Append(frames, Block(v)) ELSE frames
    /\ UNCHANGED <<recording, stream, lock, streamReady, observed, onChunk, deviceVars, threadVars, windowVars, log, stopSaw, env>>

\* the key is released: audio = recorder.stop()
E2ERelease ==
    /\ pc[Controller] = "e2e_rec"
    /\ recording' = FALSE
    /\ streamState' = [streamState EXCEPT ![stream] = "closed"]
    /\ closes' = [closes EXCEPT ![stream] = @ + 1]
    /\ stream' = NoStream
    /\ audio' = StopResult(frames)
    /\ pc' = [pc EXCEPT ![Controller] = "e2e_check"]
    /\ UNCHANGED <<frames, lock, streamReady, observed, onChunk, nextStream, cbPc, cbChunk, nextChunk, call, windowVars, log, stopSaw, env>>

\* `if duration < 0.3: ... continue`, else transcribe(model, audio) is called
E2ECheckDuration ==
    /\ pc[Controller] = "e2e_check"
    /\ IF TooShort(audio)
       THEN /\ sink' = Append(sink, <<"too_short", 0>>)
            /\ status' = "ready"
            /\ pc' = [pc EXCEPT ![Controller] = "e2e_done"]
            /\ UNCHANGED engine
       ELSE /\ engine' = Append(engine, audio)
            /\ status' = "transcribing"
            /\ pc' = [pc EXCEPT ![Controller] = "e2e_transcribe"]
            /\ UNCHANGED sink
    /\ UNCHANGED <<recorderVars, deviceVars, call, audio, winRecording, modelLoaded, spawned, jobs, log, stopSaw, env>>

\* transcribe() returns the text of the stub's segments; `if text:` print it
E2ETranscribed ==
    /\ pc[Controller] = "e2e_transcribe"
    /\ sink' = Append(sink,
          IF TranscribedText(stub) # <<>>
          THEN <<"result", Len(engine), TranscribedText(stub)>>
          ELSE <<"no_speech", Len(engine)>>)
    /\ status' = "ready"
    /\ pc' = [pc EXCEPT ![Controller] = "e2e_done"]
    /\ UNCHANGED <<recorderVars, deviceVars, call, audio, winRecording, modelLoaded, spawned, jobs, engine, log, stopSaw, env>>

NextE2E ==
    \/ E2EEngage
    \/ E2EDeliver
    \/ E2ERelease
    \/ E2ECheckDuration
    \/ E2ETranscribed

SpecE2E == InitE2E /\ [][NextE2E]_vars

\* ===================================================================
\* transcribe(model, audio_data)
\* ===================================================================
\* Calls of transcribe() one after the other, each with a buffer from
\* TranscribeInputs; the temporary directory and the engine may fail.

\* most calls of transcribe()
MaxCalls == 2
TranscribeInputs == {<<>>, <<100>>, <<100, 0>>}

\* what the functions of the module do not touch
programVars == <<recorderVars, deviceVars, call, winRecording, modelLoaded,
                 status, spawned, jobs, engine, sink, log, stopSaw>>

InitTranscribe ==
    /\ Constructed(FALSE, "tr_idle")
    /\ \E segments \in StubSegments : env = EnvOf("terminal", FALSE, segments, <<>>)

\* mutant of TrEnter: no test for an empty buffer
TrEnterNoCheck ==
    /\ pc[Controller] = "tr_idle"
    /\ made < MaxCalls
    /\ \E a \in TranscribeInputs :
          /\ audio' = a
          /\ pc' = [pc EXCEPT ![Controller] = "tr_create"]
          /\ env' = [env EXCEPT !.ret = <<"none">>]
    /\ UNCHANGED programVars

\* transcribe(model, audio_data) is called: `if len(audio_data) == 0: return ""`
TrEnter ==
    /\ pc[Controller] = "tr_idle"
    /\ made < MaxCalls
    /\ \E a \in TranscribeInputs :
          /\ audio' = a
          /\ IF Len(a) = 0
             THEN pc' = pc /\ env' = [env EXCEPT !.ret = <<"returned", <<>>>>]
             ELSE /\ pc' = [pc EXCEPT ![Controller] = "tr_create"]
                  /\ env' = [env EXCEPT !.ret = <<"none">>]
    /\ UNCHANGED programVars

\* tempfile.NamedTemporaryFile(suffix=".wav", delete=False): a new file
TrCreateOk ==
    /\ pc[Controller] = "tr_create"
    /\ env' = [env EXCEPT !.made = made + 1, !.tmp = tmp \cup {made + 1}]
    /\ pc' = [pc EXCEPT ![Controller] = "tr_write"]
    /\ UNCHANGED <<programVars, audio>>

\* NamedTemporaryFile raises OSError: no file, the exception leaves transcribe()
TrCreateRaise ==
    /\ pc[Controller] = "tr_create"
    /\ env' = [env EXCEPT !.ret = <<"raised", "create">>]
    /\ pc' = [pc EXCEPT ![Controller] = "tr_idle"]
    /\ UNCHANGED <<programVars, audio>>

\* wave.open(tmp, "wb") ... wf.writeframes(audio_data.tobytes()); both with
\* blocks are left, the file is closed and stays (delete=False)
TrWriteOk ==
    /\ pc[Controller] = "tr_write"
    /\ pc' = [pc EXCEPT ![Controller] = "tr_engine"]
    /\ UNCHANGED <<programVars, audio, env>>

\* writing raises (OSError: no space left): the with blocks close the file,
\* the exception leaves transcribe() before the try statement is entered
TrWriteRaise ==
    /\ pc[Controller] = "tr_write"
    /\ env' = [env EXCEPT !.ret = <<"raised", "write">>]
    /\ pc' = [pc EXCEPT ![Controller] = "tr_idle"]
    /\ UNCHANGED <<programVars, audio>>

\* segments, _info = model.transcribe(tmp_path, ...); text = " ".join(...).strip()
TrEngineOk ==
    /\ pc[Controller] = "tr_engine"
    /\ env' = [env EXCEPT !.calls = Append(calls, made),
                          !.ret = <<"returned", TranscribedText(stub)>>]
    /\ pc' = [pc EXCEPT ![Controller] = "tr_unlink"]
    /\ UNCHANGED <<programVars, audio>>

\* model.transcribe raises
TrEngineRaise ==
    /\ pc[Controller] = "tr_engine"
    /\ env' = [env EXCEPT !.calls = Append(calls, made),
                          !.ret = <<"raised", "engine">>]
    /\ pc' = [pc EXCEPT ![Controller] = "tr_unlink"]
    /\ UNCHANGED <<programVars, audio>>

\* finally: os.unlink(tmp_path)
TrUnlinkOk ==
    /\ pc[Controller] = "tr_unlink"
    /\ env' = [env EXCEPT !.tmp = tmp \ {made}]
    /\ pc' = [pc EXCEPT ![Controller] = "tr_idle"]
    /\ UNCHANGED <<programVars, audio>>

\* os.unlink raises OSError, which is passed over: the file is already gone,
\* or it cannot be removed and stays
TrUnlinkRaise ==
    /\ pc[Controller] = "tr_unlink"
    /\ \/ env' = [env EXCEPT !.tmp = tmp \ {made}]
       \/ env' = env
    /\ pc' = [pc EXCEPT ![Controller] = "tr_idle"]
    /\ UNCHANGED <<programVars, audio>>

NextTranscribe ==
    \/ TrEnter
    \/ TrCreateOk
    \/ TrCreateRaise
    \/ TrWriteOk
    \/ TrWriteRaise
    \/ TrEngineOk
    \/ TrEngineRaise
    \/ TrUnlinkOk
    \/ TrUnlinkRaise

SpecTranscribe == InitTranscribe /\ [][NextTranscribe]_vars

\* ===================================================================
\* wtype_text(text) and copy_to_clipboard_xdg(text)
\* ===================================================================
\* The two functions are called, any number of times, with one text; every
\* subprocess.run ends in one of Outcomes.

Dashes == <<"-", "-", "t">>
\* "U+017C" stands for the one character z with dot above
Accented == <<"z", "a", "U+017C">>
Texts == {<<>>, Test, Dashes, Accented}

\* how subprocess.run(..., check=True, timeout=n) ends: it returns, or raises
\* FileNotFoundError, CalledProcessError or TimeoutExpired
Outcomes == {"ok", "missing", "nonzero", "timeout"}

\* one word of a command line
Word(w) == <<w>>

\* the UTF-8 bytes of one character
Utf8Char(c) ==
    CASE c = "t" -> <<116>>
      [] c = "e" -> <<101>>
      [] c = "s" -> <<115>>
      [] c = "-" -> <<45>>
      [] c = "z" -> <<122>>
      [] c = "a" -> <<97>>
      [] c = "U+017C" -> <<197, 188>>

\* text.encode("utf-8")
RECURSIVE Utf8(_)
Utf8(t) == IF t = <<>> THEN <<>> ELSE Utf8Char(Head(t)) \o Utf8(Tail(t))

\* subprocess.run(argv, input=..., check=True, timeout=n) as it was called
Run(argv, piped, input, timeout, outcome) ==
    [argv |-> argv, piped |-> piped, input |-> input, check |-> TRUE,
     timeout |-> timeout, outcome |-> outcome]

XclipArgv == <<Word("xclip"), Word("-selection"), Word("clipboard")>>
XdotoolArgv == <<Word("xdotool"), Word("key"), Word("--clearmodifiers"), Word("ctrl+v")>>
WtypeArgv(text) == <<Word("wtype"), Word("--"), text>>
WlCopyArgv == <<Word("wl-copy")>>

InitHelpers ==
    /\ Constructed(FALSE, "hl_idle")
    /\ \E text \in Texts : env = EnvOf("terminal", FALSE, <<>>, text)

\* wtype_text(text) is called
WtEnter ==
    /\ pc[Controller] = "hl_idle"
    /\ env' = [env EXCEPT !.ran = <<>>, !.ret = <<"none">>]
    /\ pc' = [pc EXCEPT ![Controller] = "wt_xclip"]
    /\ UNCHANGED <<programVars, audio>>

\* method 1, first command: xclip with the text on its standard input
WtXclip ==
    /\ pc[Controller] = "wt_xclip"
    /\ \E o \in Outcomes :
          /\ env' = [env EXCEPT !.ran = Append(ran, Run(XclipArgv, TRUE, Utf8(arg), 3, o))]
          /\ pc' = [pc EXCEPT ![Controller] = IF o = "ok" THEN "wt_xdotool" ELSE "wt_wtype"]
    /\ UNCHANGED <<programVars, audio>>

\* method 1, second command: xdotool pastes; `return True`
WtXdotool ==
    /\ pc[Controller] = "wt_xdotool"
    /\ \E o \in Outcomes :
          /\ env' = [env EXCEPT
                       !.ran = Append(ran, Run(XdotoolArgv, FALSE, <<>>, 3, o)),
                       !.ret = IF o = "ok" THEN <<"returned", TRUE>> ELSE ret]
          /\ pc' = [pc EXCEPT ![Controller] = IF o = "ok" THEN "hl_idle" ELSE "wt_wtype"]
    /\ UNCHANGED <<programVars, audio>>

\* mutant of WtWtype: a timeout of wtype is not caught
WtWtypeTimeoutEscapes ==
    /\ pc[Controller] = "wt_wtype"
    /\ \E o \in Outcomes :
          env' = [env EXCEPT
                    !.ran = Append(ran, Run(WtypeArgv(arg), FALSE, <<>>, 5, o)),
                    !.ret = IF o = "timeout" THEN <<"raised", o>> ELSE <<"returned", o = "ok">>]
    /\ pc' = [pc EXCEPT ![Controller] = "hl_idle"]
    /\ UNCHANGED <<programVars, audio>>

\* method 2: wtype -- text; `return True`, or `return False` after the except
WtWtype ==
    /\ pc[Controller] = "wt_wtype"
    /\ \E o \in Outcomes :
          env' = [env EXCEPT
                    !.ran = Append(ran, Run(WtypeArgv(arg), FALSE, <<>>, 5, o)),
                    !.ret = <<"returned", o = "ok">>]
    /\ pc' = [pc EXCEPT ![Controller] = "hl_idle"]
    /\ UNCHANGED <<programVars, audio>>

\* copy_to_clipboard_xdg(text) is called
CpEnter ==
    /\ pc[Controller] = "hl_idle"
    /\ env' = [env EXCEPT !.ran = <<>>, !.ret = <<"none">>]
    /\ pc' = [pc EXCEPT ![Controller] = "cp_wlcopy"]
    /\ UNCHANGED <<programVars, audio>>

\* mutant of CpWlCopy: xclip is tried whatever wl-copy did
CpWlCopyGoesOn ==
    /\ pc[Controller] = "cp_wlcopy"
    /\ \E o \in Outcomes :
          env' = [env EXCEPT !.ran = Append(ran, Run(WlCopyArgv, TRUE, Utf8(arg), 3, o))]
    /\ pc' = [pc EXCEPT ![Controller] = "cp_xclip"]
    /\ UNCHANGED <<programVars, audio>>

\* first round of the loop: wl-copy
CpWlCopy ==
    /\ pc[Controller] = "cp_wlcopy"
    /\ \E o \in Outcomes :
          /\ env' = [env EXCEPT
                       !.ran = Append(ran, Run(WlCopyArgv, TRUE, Utf8(arg), 3, o)),
                       !.ret = IF o = "ok" THEN <<"returned", TRUE>> ELSE ret]
          /\ pc' = [pc EXCEPT ![Controller] = IF o = "ok" THEN "hl_idle" ELSE "cp_xclip"]
    /\ UNCHANGED <<programVars, audio>>

\* second round of the loop: xclip; after the loop `return False`
CpXclip ==
    /\ pc[Controller] = "cp_xclip"
    /\ \E o \in Outcomes :
          env' = [env EXCEPT
                    !.ran = Append(ran, Run(XclipArgv, TRUE, Utf8(arg), 3, o)),
                    !.ret = <<"returned", o = "ok">>]
    /\ pc' = [pc EXCEPT ![Controller] = "hl_idle"]
    /\ UNCHANGED <<programVars, audio>>

NextHelpers ==
    \/ WtEnter
    \/ WtXclip
    \/ WtXdotool
    \/ WtWtype
    \/ CpEnter
    \/ CpWlCopy
    \/ CpXclip

SpecHelpers == InitHelpers /\ [][NextHelpers]_vars

\* ===================================================================
\* rms_level(chunk)
\* ===================================================================
\* Two calls of rms_level, each with a chunk of 16-bit samples.  A level is
\* kept in units of 1/32768, rounded down: 0 is 0.0 and 32768 is 1.0.

\* longest chunk handed to rms_level
MaxRmsLen == 3
\* `rms / 32768.0`
FULL_SCALE == 32768
RmsSamples == {-32768, -100, 0, 100, 32767}
RmsChunks == UNION {[1..n -> RmsSamples] : n \in 0..MaxRmsLen}

\* mutant of Float32: the samples stay 16-bit integers, whose square wraps
Int16Wrap(x) == ((x + 32768) % 65536) - 32768

\* chunk.astype(np.float32): every 16-bit value is kept as it is, and its
\* square, below 2^31, is not cut to 16 bits
Float32(x) == x

\* chunk.astype(np.float32) ** 2
Squares(chunk) == [i \in 1..Len(chunk) |-> Float32(Float32(chunk[i]) * Float32(chunk[i]))]

RECURSIVE SumDiv(_, _)
SumDiv(sq, n) == IF sq = <<>> THEN 0 ELSE (Head(sq) \div n) + SumDiv(Tail(sq), n)
RECURSIVE SumMod(_, _)
SumMod(sq, n) == IF sq = <<>> THEN 0 ELSE (Head(sq) % n) + SumMod(Tail(sq), n)

\* np.mean(...), rounded down; the sum is taken in two parts so that it
\* stays below 2^31
Mean(sq) == SumDiv(sq, Len(sq)) + (SumMod(sq, Len(sq)) \div Len(sq))

\* np.sqrt(...), rounded down: the largest r in lo..hi with r * r <= m
RECURSIVE Root(_, _, _)
Root(m, lo, hi) ==
    IF lo = hi THEN lo
    ELSE LET mid == (lo + hi + 1) \div 2
         IN  IF mid * mid <= m THEN Root(m, mid, hi) ELSE Root(m, lo, mid - 1)

\* mutant of Sqrt: the mean is returned as it is
SqrtLeftOut(m) == m

\* np.sqrt of a value that is at most FULL_SCALE squared
Sqrt(m) == Root(m, 0, FULL_SCALE)

\* min(a, b)
Min(a, b) == IF a <= b THEN a ELSE b

\* rms_level(chunk), in units of 1/FULL_SCALE
RmsLevel(chunk) ==
    IF Len(chunk) = 0 THEN 0
    ELSE Min(Sqrt(Mean(Squares(chunk))), FULL_SCALE)

InitRms ==
    /\ Constructed(FALSE, "rms_idle")
    /\ \E chunk \in RmsChunks : env = EnvOf("terminal", FALSE, <<>>, chunk)

\* level = rms_level(chunk)
RmsCall ==
    /\ pc[Controller] = "rms_idle"
    /\ ret = <<"none">>
    /\ env' = [env EXCEPT
                 !.ret = <<"returned", RmsLevel(arg)>>,
                 !.ran = Append(ran, [chunk |-> arg, level |-> RmsLevel(arg)])]
    /\ UNCHANGED <<programVars, pc, audio>>

\* the next chunk arrives
RmsNextChunk ==
    /\ pc[Controller] = "rms_idle"
    /\ ret # <<"none">>
    /\ Len(ran) < 2
    /\ \E chunk \in RmsChunks : env' = [env EXCEPT !.arg = chunk, !.ret = <<"none">>]
    /\ UNCHANGED <<programVars, pc, audio>>

NextRms ==
    \/ RmsCall
    \/ RmsNextChunk

SpecRms == InitRms /\ [][NextRms]_vars

\* ===================================================================
\* Delivery of a transcription result: _on_transcription_done of the window
\* (with the history, the clipboard and the auto-type thread) and the tail of
\* the loop of ptt.run
\* ===================================================================
HISTORY_MAX == 2       \* HISTORY_MAX = 200, scaled down
MaxDeliveries == 4     \* results delivered in a run

DeliverTexts == {<<>>, <<"a">>, <<"b">>}


\* mutant of Truthy: the text is not tested
TruthyAlways(t) == TRUE

\* `if text:`
Truthy(t) == t # <<>>

\* mutant of Injects: the text is typed whatever auto_type says
InjectsAlways(auto) == TRUE

\* `if self.auto_type:`
Injects(auto) == auto

\* the children left after `while len(children) > HISTORY_MAX:` removed the last ones
Trimmed(children) ==
    IF Len(children) > HISTORY_MAX THEN SubSeq(children, 1, HISTORY_MAX) ELSE children

\* the window starts with auto_type on and the empty label in the history
\* box; the command line program was started with some --mode and --output
InitDeliver ==
    \/ /\ Constructed(TRUE, "dl_window")
       /\ env = EnvDefaults
    \/ /\ Constructed(FALSE, "dl_cli")
       /\ \E mode \in {"terminal", "type"} : \E output \in BOOLEAN :
              env = EnvOf(mode, output, <<>>, <<>>)

\* _stop_recording has started a transcription worker: PRZETWARZANIE...
DlWorkerStarted ==
    /\ pc[Controller] = "dl_window"
    /\ status # "transcribing"
    /\ ui.delivered < MaxDeliveries
    /\ status' = "transcribing"
    /\ UNCHANGED <<recorderVars, deviceVars, threadVars, winRecording, modelLoaded,
                   spawned, jobs, engine, sink, log, stopSaw, env>>

\* _on_transcription_done(text): _reset_to_ready, then for a text
\* _add_to_history, clipboard.set and either the _wtype_with_delay thread or
\* the toast; for no text the toast alone
DlDone ==
    /\ pc[Controller] = "dl_window"
    /\ status = "transcribing"
    /\ status' = "ready"
    /\ \E t \in DeliverTexts :
          env' = [env EXCEPT !.ui =
            IF Truthy(t)
              THEN [ui EXCEPT
                      !.emptyLabel = FALSE,
                      !.rows = Trimmed(<<t>> \o ui.rows),
                      !.items = <<t>> \o ui.items,
                      !.clipSets = Append(ui.clipSets, t),
                      !.threads = IF Injects(ui.autoType) THEN Append(ui.threads, t) ELSE ui.threads,
                      !.toasts = IF Injects(ui.autoType) THEN ui.toasts ELSE Append(ui.toasts, "copied"),
                      !.text = t,
                      !.delivered = ui.delivered + 1]
              ELSE [ui EXCEPT
                      !.toasts = Append(ui.toasts, "no_speech"),
                      !.text = t,
                      !.delivered = ui.delivered + 1]]
    /\ UNCHANGED <<recorderVars, deviceVars, threadVars, winRecording, modelLoaded,
                   spawned, jobs, engine, sink, log, stopSaw>>

\* a _wtype_with_delay thread has slept and calls wtype_text(text); a failure
\* is shown in a toast
DlWtypeWithDelay ==
    /\ pc[Controller] = "dl_window"
    /\ \E i \in 1..Len(ui.threads) : \E ok \in BOOLEAN :
          env' = [env EXCEPT !.ui =
            [ui EXCEPT
               !.typed = Append(ui.typed, ui.threads[i]),
               !.threads = SubSeq(ui.threads, 1, i - 1) \o SubSeq(ui.threads, i + 1, Len(ui.threads)),
               !.toasts = IF ok THEN ui.toasts ELSE Append(ui.toasts, "wtype_error")]]
    /\ UNCHANGED <<recorderVars, deviceVars, threadVars, windowVars, log, stopSaw>>

\* _on_auto_type_toggle(switch, state) / SettingsDialog._on_mode_changed
DlAutoTypeToggle ==
    /\ pc[Controller] = "dl_window"
    /\ \E state \in BOOLEAN :
          /\ state # ui.autoType
          /\ env' = [env EXCEPT !.ui = [ui EXCEPT !.autoType = state]]
    /\ UNCHANGED <<recorderVars, deviceVars, threadVars, windowVars, log, stopSaw>>

\* _on_clear_history: the list is cleared, every child is removed and the
\* empty label is put back
DlClearHistory ==
    /\ pc[Controller] = "dl_window"
    /\ ~ui.emptyLabel
    /\ env' = [env EXCEPT !.ui =
          [ui EXCEPT !.items = <<>>, !.rows = <<>>, !.emptyLabel = TRUE]]
    /\ UNCHANGED <<recorderVars, deviceVars, threadVars, windowVars, log, stopSaw>>

\* what ptt.run writes for a text: "[ OK ] text" on stderr, then wtype or
\* stdout, then the output file unless wtype_text raised
CliWrites(t, o) ==
    <<<<"stderr_ok", t>>>>
      \o (IF cliMode = "type" THEN <<<<"wtype", t>>>> ELSE <<<<"stdout", t>>>>)
      \o (IF cliOutput /\ o # "wtype_timeout" THEN <<<<"file", t>>>> ELSE <<>>)

\* ptt.run from `text = transcribe(model, audio)` to the end of the loop body.
\* A wtype that times out and an output file that cannot be opened raise out
\* of the loop.
DlCliDeliver ==
    /\ pc[Controller] = "dl_cli"
    /\ ui.delivered < MaxDeliveries
    /\ \E t \in DeliverTexts : \E o \in {"ok", "wtype_timeout", "open_raises"} :
          /\ (o = "wtype_timeout") => (Truthy(t) /\ cliMode = "type")
          /\ (o = "open_raises") => (Truthy(t) /\ cliOutput)
          /\ env' = [env EXCEPT !.ui =
                [ui EXCEPT
                   !.out = IF Truthy(t)
                             THEN IF o = "open_raises"
                                    THEN ui.out \o SubSeq(CliWrites(t, o), 1, 2)
                                    ELSE ui.out \o CliWrites(t, o)
                             ELSE Append(ui.out, <<"stderr_no_speech", <<>>>>),
                   !.text = t,
                   !.delivered = ui.delivered + 1]]
          /\ pc' = [pc EXCEPT ![Controller] = IF o = "ok" THEN "dl_cli" ELSE "dl_exit"]
          /\ status' = IF o = "ok" THEN "ready" ELSE status
    /\ UNCHANGED <<recorderVars, deviceVars, call, audio, winRecording, modelLoaded,
                   spawned, jobs, engine, sink, log, stopSaw>>

NextDeliver ==
    \/ DlWorkerStarted
    \/ DlDone
    \/ DlWtypeWithDelay
    \/ DlAutoTypeToggle
    \/ DlClearHistory
    \/ DlCliDeliver

SpecDeliver == InitDeliver /\ [][NextDeliver]_vars

\* ===================================================================
\* Properties
\* ===================================================================
\* ------------------------------------------- reading the controller's log
Kind(k) == log[k][1]
Stops == {j \in 1..Len(log) : Kind(j) = "stop"}
StopCalls == {j \in 1..Len(log) : Kind(j) = "call_stop"}
StartCalls == {j \in 1..Len(log) : Kind(j) = "call_start"}
StartReturns == {j \in 1..Len(log) : Kind(j) \in {"start", "raised"}}
OnlyCallbacks(i, j) == \A k \in (i + 1)..(j - 1) : Kind(k) = "callback"
IsCallback(e) == e[1] = "callback"
\* the chunks delivered to _callback after entry i and before entry j, in order
ChunksBetween(i, j) ==
    LET cbs == SelectSeq(SubSeq(log, i + 1, j - 1), IsCallback)
    IN  [k \in 1..Len(cbs) |-> cbs[k][2]]
Samples(buf) == {buf[k] : k \in 1..Len(buf)}
InStop(t) == pc[t] \in {"stop_flag", "stop_wait", "stop_lock", "stop_close", "stop_copy"}
\* buf is the chunks `before`, followed by the first chunks of `during`
ReturnsSession(buf, before, during) ==
    \E n \in 0..Len(during) : buf = Flatten(before \o SubSeq(during, 1, n))

\* C1: a stop() called after a successful start(), with nothing but chunk
\* deliveries in between, returns exactly the chunks delivered between the
\* return of start() and the call of stop(), concatenated in order (followed
\* only by chunks the device delivered while stop() was already running).
C1_StopReturnsConcatenation ==
    \A i \in StartReturns : \A c \in StopCalls : \A j \in Stops :
        (/\ i < c /\ c < j /\ Kind(i) = "start"
         /\ OnlyCallbacks(i, c) /\ OnlyCallbacks(c, j))
            => ReturnsSession(log[j][2], ChunksBetween(i, c), ChunksBetween(c, j))

\* a session of two chunks has been returned
C1_Witness ==
    \E i \in StartReturns : \E c \in StopCalls : \E j \in Stops :
        /\ i + 3 = c /\ c < j /\ Kind(i) = "start"
        /\ OnlyCallbacks(i, c) /\ OnlyCallbacks(c, j)
        /\ Len(log[j][2]) = 2 * BlockLen

\* C2: no sample is returned by two stop() calls of the controller, and so
\* no audio is handed to the transcription engine twice.
C2_NoChunkReturnedTwice ==
    \A i \in Stops : \A j \in Stops :
        i < j => Samples(log[i][2]) \cap Samples(log[j][2]) = {}

\* C3: after two start() calls with no stop() call between them, the next
\* stop() returns the chunks delivered after the second start() and none of
\* those delivered between the two.
C3_SecondStartDiscards ==
    \A i \in StartReturns : \A k \in StartReturns : \A c \in StopCalls : \A j \in Stops :
        (/\ i < k /\ k < c /\ c < j
         /\ \A x \in (i + 1)..(k - 1) : Kind(x) \in {"callback", "call_start"}
         /\ OnlyCallbacks(k, c) /\ OnlyCallbacks(c, j))
            => /\ ReturnsSession(log[j][2], ChunksBetween(k, c), ChunksBetween(c, j))
               /\ Samples(log[j][2]) \cap Samples(Flatten(ChunksBetween(i, k))) = {}

\* a chunk delivered between the two starts was discarded, one after was returned
C3_Witness ==
    \E i \in StartReturns : \E k \in StartReturns : \E c \in StopCalls : \E j \in Stops :
        /\ i < k /\ k < c /\ c < j
        /\ \A x \in (i + 1)..(k - 1) : Kind(x) \in {"callback", "call_start"}
        /\ OnlyCallbacks(k, c) /\ OnlyCallbacks(c, j)
        /\ ChunksBetween(i, k) # <<>>
        /\ ChunksBetween(k, c) # <<>>
        /\ log[j][2] = Flatten(ChunksBetween(k, c))

\* C4: after a stop() that returned the non-empty buffer of a session, every
\* further stop() made before the next start() returns the empty sequence.
C4_LaterStopsReturnEmpty ==
    \A i \in Stops : \A j \in Stops :
        (/\ i < j
         /\ log[i][2] # <<>>
         /\ \E s \in StartReturns : s < i /\ Kind(s) = "start"
                /\ \A x \in (s + 1)..(i - 1) : Kind(x) \in {"callback", "call_stop"}
         /\ \A x \in (i + 1)..(j - 1) : x \notin StartCalls)
            => log[j][2] = <<>>

\* C5: while start() has never been called, stop() returns the empty
\* sequence, is never blocked, does not raise, and the recorder is not
\* recording.
NeverStarted == StartCalls = {}
C5_StopWithoutStart ==
    NeverStarted =>
        /\ \A j \in Stops : log[j][2] = <<>>
        /\ ~recording
        /\ InStop(Controller) => ENABLED RecorderStep(Controller)
        /\ pc[Controller] # "raised"

\* stop() has returned on a recorder never started, after a callback
C5_Witness ==
    /\ NeverStarted
    /\ \E j \in Stops : \E k \in 1..(j - 1) : Kind(k) = "callback"

\* C6: once a start() that was in flight when the controller called stop()
\* and that stop() have both returned, with no later start(), no stream is
\* open and the recorder is not recording.
C6_StopAfterStartClosesStream ==
    \A w \in stopSaw :
        (/\ pc[w] = "done"
         /\ spawned = w
         /\ pc[Controller] \in {"idle", "ret"}
         /\ \A v \in Workers \ {w} : ~InFlight(v))
            => /\ \A s \in Streams : ~IsOpen(s)
               /\ stream = NoStream
               /\ ~recording

\* C7: at most one device stream is open.
C7_AtMostOneStreamOpen == Cardinality({s \in Streams : IsOpen(s)}) <= 1

\* C8: when a stream is opened, every stream opened before it has been closed.
C8_ClosedBeforeNextOpen ==
    [][\A s \in Streams :
          (streamState[s] = "unopened" /\ streamState'[s] = "open")
              => \A r \in Streams \ {s} : streamState[r] \in {"unopened", "closed"}]_vars

\* C9: a thread inside stop() can take its next step even when a start()
\* hangs in the device open, so stop() returns.
C9_StopNotBlockedByHungStart ==
    \A t \in Threads :
        (InStop(t) /\ \E h \in Threads : pc[h] = "hung")
            => ENABLED RecorderStep(t)

\* C10: the active flag is cleared and the accumulator appended to only
\* while the lock is held, and the state of a device stream changes
\* (open, start, stop, close) only while the lock is free.
C10_LockDiscipline ==
    [][/\ (recording /\ ~recording') => lock # NoThread
       /\ Len(frames') > Len(frames) => lock # NoThread
       /\ streamState' # streamState => lock = NoThread]_vars

\* C11: whenever no thread is inside start() or stop(), the recorder holds
\* an open device stream if and only if it is marked recording.
Quiescent == \A t \in Threads : pc[t] \in {"idle", "unborn", "done", "failed"}
C11_OpenIffRecording ==
    Quiescent => ((stream # NoStream /\ IsOpen(stream)) <=> recording)

\* C12: when start() has returned without raising, that call has created
\* exactly one stream, the stream is started and is the only open one, and the
\* recorder is recording; when the stop() that follows has returned, that
\* stream is closed by one close() call, the handle is empty and the recorder
\* is not recording; no stream is ever closed twice.
LastOf(S) == CHOOSE j \in S : \A k \in S : k <= j
AfterStart == pc[Controller] = "ret" /\ call[Controller] = "start"
AfterStopOfStart ==
    /\ pc[Controller] = "ret" /\ call[Controller] = "stop"
    /\ \E i \in StartReturns : /\ Kind(i) = "start"
                               /\ \A x \in (i + 1)..(Len(log) - 1) :
                                      Kind(x) \in {"callback", "call_stop"}
C12_StartOpensStopCloses ==
    /\ AfterStart =>
          /\ nextStream = log[LastOf(StartCalls)][2][1] + 1
          /\ stream = nextStream - 1
          /\ streamState[stream] = "active"
          /\ \A s \in Streams \ {stream} : ~IsOpen(s)
          /\ recording
    /\ AfterStopOfStart =>
          /\ streamState[nextStream - 1] = "closed"
          /\ closes[nextStream - 1] = 1
          /\ stream = NoStream
          /\ ~recording
    /\ \A s \in Streams : closes[s] <= 1

\* start(), start() and stop() have returned in turn, a chunk was recorded:
\* two streams were opened and closed
C12_Witness ==
    /\ AfterStopOfStart
    /\ nextStream = 3
    /\ audio # <<>>

\* C13: a chunk delivered while the recorder is not recording is dropped on
\* the spot, and a chunk delivered before the first start() call, or after a
\* stop() has returned and before the next start() call, is in no buffer that
\* a stop() returns.
Callbacks == {j \in 1..Len(log) : Kind(j) = "callback"}
\* no call of start() precedes entry k, or the last call before it is a
\* stop() that has returned
OutsideSession(k) ==
    \/ \A x \in 1..(k - 1) : Kind(x) # "call_start"
    \/ \E i \in Stops : i < k /\ OnlyCallbacks(i, k)
DeliveredInactive ==
    /\ Len(log') = Len(log) + 1
    /\ log'[Len(log')][1] = "callback"
    /\ ~recording
C13_InactiveChunkDropped ==
    /\ [](\A k \in Callbacks : \A j \in Stops :
            OutsideSession(k) => Samples(log[k][2]) \cap Samples(log[j][2]) = {})
    /\ [][DeliveredInactive => (frames' = frames /\ cbPc' = cbPc)]_vars

\* a chunk was delivered after a stop() had returned a session's buffer, and
\* a later stop() has returned
C13_Witness ==
    \E i \in Stops : \E k \in Callbacks : \E j \in Stops :
        /\ i < k /\ k < j /\ OnlyCallbacks(i, k)
        /\ log[i][2] # <<>>

\* C14: with an observer registered, the callback calls it once for every
\* chunk it appends, before the callback returns, with that chunk, and does
\* not call it for a chunk delivered while the recorder is not recording.
LastObserved == observed'[Len(observed')]
Observes == Len(observed') = Len(observed) + 1 /\ SubSeq(observed', 1, Len(observed)) = observed
Appends == Len(frames') = Len(frames) + 1
ObservedOnce ==
    /\ \A a \in 1..Len(observed) : \A b \in 1..Len(observed) :
           a # b => observed[a][1] # observed[b][1]
    /\ \A f \in 1..Len(frames) :
           \/ \E k \in 1..Len(observed) : observed[k][1] = frames[f]
           \/ \E s \in Streams : cbPc[s] = "observe" /\ cbChunk[s] = frames[f]
ObserverStep ==
    /\ Appends =>
          \/ Observes /\ LastObserved[1] = frames'[Len(frames')]
          \/ /\ observed' = observed
             /\ \E s \in Streams : /\ cbPc[s] = "append" /\ cbPc'[s] = "observe"
                                    /\ cbChunk'[s] = frames'[Len(frames')]
    /\ \A s \in Streams :
          (cbPc[s] = "observe" /\ cbPc'[s] # "observe")
              => Observes /\ LastObserved[1] = cbChunk[s]
    /\ observed' # observed =>
          /\ Observes
          /\ \/ Appends /\ frames'[Len(frames')] = LastObserved[1]
             \/ \E s \in Streams : cbPc[s] = "observe" /\ cbChunk[s] = LastObserved[1]
    /\ DeliveredInactive => (observed' = observed /\ cbPc' = cbPc)
C14_ObserverOncePerAppendedChunk ==
    /\ [](onChunk => ObservedOnce)
    /\ [][onChunk => ObserverStep]_vars

\* of two chunks delivered, one was dropped and the other appended and observed
C14_Witness ==
    /\ onChunk
    /\ Cardinality(Callbacks) = 2
    /\ Len(frames) = 1 /\ Len(observed) = 1
    /\ \A s \in Streams : cbPc[s] = "idle"

\* C15: when the observer raises, the callback returns normally and no other
\* thread is disturbed, the chunk is in the accumulator, and a stop() that
\* ends the session returns every chunk of the session, the one whose
\* observer raised and the later ones included.
ObserverRaises == Observes /\ LastObserved[2] = "raised"
RaisedIn(chs) ==
    \E k \in 1..Len(observed) : \E n \in 1..Len(chs) :
        observed[k][2] = "raised" /\ observed[k][1] = chs[n]
IsPrefix(a, b) == Len(a) <= Len(b) /\ SubSeq(b, 1, Len(a)) = a
C15_ObserverFailureSwallowed ==
    /\ [][ObserverRaises =>
            /\ \A s \in Streams : cbPc[s] = "observe" /\ cbPc'[s] # "observe" => cbPc'[s] = "idle"
            /\ pc' = pc
            /\ \E f \in 1..Len(frames') : frames'[f] = LastObserved[1]]_vars
    /\ [](\A i \in StartReturns : \A c \in StopCalls : \A j \in Stops :
            (/\ i < c /\ c < j /\ Kind(i) = "start"
             /\ OnlyCallbacks(i, c) /\ OnlyCallbacks(c, j)
             /\ RaisedIn(ChunksBetween(i, c)))
                => IsPrefix(Flatten(ChunksBetween(i, c)), log[j][2]))

\* the observer raised on the first chunk of a session of two, and stop()
\* returned both
C15_Witness ==
    \E i \in StartReturns : \E c \in StopCalls : \E j \in Stops :
        /\ i + 3 = c /\ c < j /\ Kind(i) = "start"
        /\ OnlyCallbacks(i, c) /\ OnlyCallbacks(c, j)
        /\ Len(observed) >= 1 /\ observed[1] = <<log[i + 1][2], "raised">>
        /\ log[j][2] = Flatten(ChunksBetween(i, c))

\* C16: at most one recording/transcription cycle is in flight: the window
\* is never recording while a transcription is in flight, and no two
\* transcriptions are in flight together.
C16_OneCycleInFlight ==
    /\ ~(winRecording /\ jobs > 0)
    /\ jobs <= 1

\* ------------------------------------------------- reading the controller
\* the controller is idle: not recording, the status shows ready
ControllerIdle ==
    /\ status = "ready"
    /\ \/ pc[Controller] = "idle" /\ ~winRecording
       \/ pc[Controller] = "cli_ready"
\* the step that compares the duration of the buffer stop() returned
DurationCheck ==
    \/ pc[Controller] = "ret" /\ call[Controller] = "stop" /\ pc'[Controller] = "idle"
    \/ pc[Controller] = "cli_check" /\ pc'[Controller] # "cli_check"
Reports(kind) == Len(sink') = Len(sink) + 1 /\ sink'[Len(sink')][1] = kind

\* C17: when the buffer that stop() returned on release is shorter than the
\* minimum, the controller reports a too-short outcome, hands nothing to the
\* engine and is idle; no buffer shorter than the minimum reaches the engine.
C17_TooShortSkipped ==
    /\ [][(DurationCheck /\ Len(audio) < MinSamples)
            => /\ sink' = Append(sink, <<"too_short", 0>>)
               /\ engine' = engine
               /\ jobs' = jobs
               /\ ControllerIdle']_vars
    /\ [](\A j \in 1..Len(engine) : Len(engine[j]) >= MinSamples)

\* a recording of one chunk has just been reported as too short
C17_Witness ==
    /\ sink # <<>> /\ sink[Len(sink)][1] = "too_short"
    /\ Len(audio) = BlockLen
    /\ ControllerIdle

\* C18: every transcription has at most one outcome delivered, and when a
\* result is delivered the controller is idle and accepts the next trigger.
AcceptsTrigger ==
    \/ pc[Controller] = "idle" /\ ~winRecording /\ modelLoaded
    \/ pc[Controller] = "cli_ready"
C18_OneResultThenIdle ==
    /\ [](\A j \in 1..Len(engine) :
            Cardinality({k \in 1..Len(sink) :
                sink[k][2] = j /\ sink[k][1] \in {"result", "no_speech", "error"}}) <= 1)
    /\ [][Reports("result") => (ControllerIdle' /\ AcceptsTrigger')]_vars

\* C19: when the transcription engine fails, the controller reports an error
\* for that transcription and is idle.
EngineFails ==
    \/ /\ pc[Controller] = "cli_transcribe" /\ pc'[Controller] # "cli_transcribe"
       /\ call'[Controller] = "final_error"
    \/ /\ Pending' # Pending /\ engine' = engine
       /\ sink'[Len(sink')][1] \notin {"result", "no_speech"}
C19_EngineFailureReported ==
    [][EngineFails => (Reports("error") /\ ControllerIdle')]_vars

\* C20: once the start() of the latest trigger has failed to open the device,
\* the controller is not recording, and has reported an error.
C20_FailedOpenLeavesIdle ==
    \A w \in Workers :
        (pc[w] = "failed" /\ w = spawned /\ pc[Controller] = "idle")
            => /\ ~winRecording
               /\ status # "recording"
               /\ \E k \in 1..Len(sink) : sink[k][1] = "error"

\* C21: when the process ends while the controller was recording or
\* transcribing, no device stream is open.
ProcessEnded == pc[Controller] \in {"exited", "cli_exit", "cli_died"}
C21_NoStreamOpenAtExit ==
    (ProcessEnded /\ (winRecording \/ jobs > 0 \/ pc[Controller] # "exited"))
        => \A s \in Streams : ~IsOpen(s)

\* C22: when an output sink fails (the keystroke helper is missing, fails or
\* times out, the output file cannot be written), the failure is reported, the
\* remaining sink is still served and the controller goes on to idle.
SinkFails ==
    \/ pc[Controller] = "cli_type" /\ pc'[Controller] # "cli_type"
          /\ ~Reports("result")
    \/ pc[Controller] = "cli_file" /\ pc'[Controller] # "cli_file"
          /\ ~Reports("filed")
C22_SinkFailureIsolated ==
    [][SinkFails =>
        /\ Reports("sink_error")
        /\ call'[Controller] # "final_error"
        /\ pc'[Controller] =
              IF pc[Controller] = "cli_type" /\ cliOutput THEN "cli_file" ELSE "cli_ready"]_vars

\* C23: one recording of three blocks of 1024 samples of value 100, released,
\* with an engine stub returning "test": stop() returns 3072 samples all equal
\* to 100, the engine is called and the sink receives exactly one result, "test".
AllBlocksOf(v) == \A k \in 1..Len(frames) : frames[k] = Block(v)
ScenarioDone(n) ==
    /\ pc[Controller] = "e2e_done"
    /\ Len(frames) = n /\ AllBlocksOf(100)
    /\ stub = <<Test>>
ReturnedAll(n) ==
    /\ Len(audio) = n * BLOCK_SIZE
    /\ \A i \in 1..Len(audio) : audio[i] = 100
C23_ThreeChunksTranscribed ==
    ScenarioDone(3) =>
        /\ ReturnedAll(3)
        /\ engine = <<audio>>
        /\ sink = << <<"result", 1, Test>> >>

\* C23 as the program has it: stop() returns all 3072 samples, which are
\* 0.192 s and under the 0.3 s minimum, so the recording is reported as too
\* short and the engine is not called; from five blocks on (5120 samples) the
\* engine is called once with the whole buffer and the sink receives
\* exactly one result, "test".
C23_EndToEnd ==
    \A n \in 0..(MaxE2EChunks + 1) :
        ScenarioDone(n) =>
            /\ ReturnedAll(n)
            /\ n = 3 => (sink = << <<"too_short", 0>> >> /\ engine = <<>>)
            /\ IF Len(audio) < 4800
               THEN sink = << <<"too_short", 0>> >> /\ engine = <<>>
               ELSE engine = <<audio>> /\ sink = << <<"result", 1, Test>> >>
C23_Witness ==
    /\ ScenarioDone(3)
    /\ Len(audio) = 3072
    /\ sink = << <<"too_short", 0>> >>

\* C24: transcribe() given an empty buffer returns the empty string, does not
\* call the engine and creates no temporary file.
EntersWithEmpty == pc[Controller] = "tr_idle" /\ audio' = <<>> /\ env'.ret # ret
C24_EmptyAudioShortCircuits ==
    /\ [][EntersWithEmpty =>
            /\ env'.ret = <<"returned", <<>>>>
            /\ pc'[Controller] = "tr_idle"
            /\ env'.calls = calls /\ env'.made = made /\ env'.tmp = tmp]_vars
    /\ [](pc[Controller] \in {"tr_create", "tr_write", "tr_engine", "tr_unlink"}
            => audio # <<>>)
C24_Witness ==
    /\ pc[Controller] = "tr_idle" /\ audio = <<>>
    /\ ret = <<"returned", <<>>>>
    /\ made = 1 /\ Len(calls) = 1

\* C25: when transcribe() has exited, by returning a text, by the engine
\* raising or by a failed write, no temporary file it created exists; and
\* each call hands the engine the path of exactly one file, its own.
TranscribeExited == pc[Controller] = "tr_idle"
C25_TempFileDeleted ==
    /\ [](TranscribeExited => tmp = {})
    /\ [](\A k \in 1..Len(calls) : calls[k] = k)

\* C26: a finished call of wtype_text(text) has run exactly one helper
\* command, wtype "--" text with check=True and timeout 5, and has returned
\* True when that command succeeded.
WtypeTextDone ==
    /\ pc[Controller] = "hl_idle" /\ ret # <<"none">>
    /\ ran # <<>> /\ ran[1].argv = XclipArgv
C26_RunsWtypeOnly ==
    WtypeTextDone =>
        /\ Len(ran) = 1
        /\ ran[1].argv = WtypeArgv(arg)
        /\ ran[1].check /\ ran[1].timeout = 5
        /\ ran[1].outcome = "ok" => ret = <<"returned", TRUE>>

\* C27: wtype_text never raises when a helper is missing, fails or times
\* out; it returns True exactly when xclip and then xdotool succeeded or,
\* failing that, wtype succeeded, and False when every attempt failed; wtype
\* is run only after the xclip/xdotool attempt failed.
Ok(k) == k <= Len(ran) /\ ran[k].outcome = "ok"
PasteSucceeded == Ok(1) /\ Ok(2) /\ ran[2].argv = XdotoolArgv
PasteFailed ==
    \/ Len(ran) >= 1 /\ ~Ok(1)
    \/ Len(ran) >= 2 /\ ran[2].argv = XdotoolArgv /\ ~Ok(2)
WtypeRuns == {k \in 1..Len(ran) : ran[k].argv = WtypeArgv(arg)}
InCopy == ran # <<>> /\ ran[1].argv = WlCopyArgv
CopyDone == InCopy /\ pc[Controller] = "hl_idle" /\ ret # <<"none">>
C28_ClipboardFallback ==
    InCopy =>
        /\ ret[1] # "raised"
        /\ Len(ran) <= 2
        /\ Len(ran) = 2 => (ran[2].argv = XclipArgv /\ ~Ok(1))
        /\ \A k \in 1..Len(ran) : ran[k].piped /\ ran[k].input = Utf8(arg)
        /\ CopyDone => /\ ret = <<"returned", Ok(Len(ran))>>
                       /\ \A k \in 1..(Len(ran) - 1) : ~Ok(k)
C28_Witness ==
    /\ CopyDone /\ Len(ran) = 2 /\ arg = Accented
    /\ ran[1].outcome = "timeout" /\ Ok(2)
    /\ ran[2].input = <<122, 97, 197, 188>>

\* C29: rms_level returns a level between 0 and 1 that is the square root of
\* the mean square of the samples, over full scale and cut at 1: 0 for an
\* empty and for an all-zero chunk, at least one half for a chunk of
\* full-scale samples; the chunk and all other state are left as they were.
Zeros(c) == \A i \in 1..Len(c) : c[i] = 0
AllFullScale(c) == Len(c) > 0 /\ \A i \in 1..Len(c) : c[i] \in {-32768, 32767}
IsRootMeanSquare(c, l) ==
    LET m == Mean([i \in 1..Len(c) |-> c[i] * c[i]])
    IN  l * l <= m /\ m < (l + 1) * (l + 1)
LevelIsRms(r) ==
    /\ r.level \in 0..FULL_SCALE
    /\ Len(r.chunk) = 0 => r.level = 0
    /\ Zeros(r.chunk) => r.level = 0
    /\ AllFullScale(r.chunk) => 2 * r.level >= FULL_SCALE
    /\ Len(r.chunk) > 0 => IsRootMeanSquare(r.chunk, r.level)
C29_LevelIsClippedRms ==
    /\ [](\A k \in 1..Len(ran) : LevelIsRms(ran[k]))
    /\ [][env'.ret # ret /\ ret = <<"none">> =>
            /\ env'.arg = arg /\ env'.ran = Append(ran, [chunk |-> arg, level |-> env'.ret[2]])
            /\ UNCHANGED <<programVars, pc, audio>>]_vars
C29_Witness ==
    /\ Len(ran) = 2
    /\ ran[1].chunk = <<32767, 32767, 32767>> /\ ran[1].level = 32767
    /\ ran[2].chunk = <<0, 0>> /\ ran[2].level = 0

\* C30: of two chunks of one length, where every sample of the louder is at
\* least as large in magnitude as the sample of the quieter in its place, the
\* louder has the level that is at least the other's.
Abs(x) == IF x < 0 THEN 0 - x ELSE x
Louder(a, b) ==
    /\ Len(a) = Len(b)
    /\ \A i \in 1..Len(a) : Abs(a[i]) >= Abs(b[i])
C30_RmsMonotone ==
    \A j \in 1..Len(ran) : \A k \in 1..Len(ran) :
        Louder(ran[j].chunk, ran[k].chunk) => ran[j].level >= ran[k].level
C30_Witness ==
    /\ Len(ran) = 2
    /\ ran[1].chunk = <<100, 0, -100>>
    /\ ran[2].chunk = <<-32768, 100, 32767>>
    /\ Louder(ran[2].chunk, ran[1].chunk)
    /\ ran[2].level > ran[1].level

\* C31: while the command line program records, stop() is called once more
\* than the release timeout has passed without the trigger key, recording
\* goes on while the trigger key keeps arriving within the timeout, and a key
\* other than the trigger key does not renew the signal.
CliRecording == pc[Controller] = "cli_rec"
LeavesRecording == CliRecording /\ pc'[Controller] = "cli_stop_flag" /\ call'[Controller] = "stop"
C31_ReleaseAfterTimeout ==
    /\ [](CliRecording => sinceTrigger <= ReleaseTicks + PollTicks)
    /\ [][LeavesRecording => sinceTrigger + PollTicks > ReleaseTicks]_vars


\* C32: when start() has raised (the device open or the stream start failed),
\* the recorder is idle: it is not recording, holds no stream handle, the lock
\* is free, and the ready event is set so that the next stop() does not wait
\* until its timeout.
StartRaised == pc[Controller] = "raised" /\ call[Controller] = "start"
C32_FailedStartLeavesIdle ==
    StartRaised => (~recording /\ stream = NoStream /\ lock = NoThread /\ streamReady)


\* C33: when stopping or closing the stream raises inside stop(), stop() goes
\* on to its end and does not raise: the handle is cleared at once, and when
\* the call has returned the lock is free, the handle is empty and the value
\* returned is the chunks accumulated up to the copy, in order.
CloseRaised == Len(log) >= 1 /\ log[Len(log)][1] = "close_raised"
StopAfterCloseRaised ==
    /\ pc[Controller] = "ret"
    /\ call[Controller] = "stop"
    /\ Len(log) >= 2
    /\ log[Len(log) - 1][1] = "close_raised"
PrefixesOf(fs) == {SubSeq(fs, 1, k) : k \in 0..Len(fs)}
C33_StopSurvivesCloseError ==
    /\ (CloseRaised /\ call[Controller] = "stop") =>
          /\ pc[Controller] = "stop_copy"
          /\ stream = NoStream
    /\ StopAfterCloseRaised =>
          /\ log[Len(log)][1] = "stop"
          /\ audio = log[Len(log)][2]
          /\ \E fs \in PrefixesOf(frames) : audio = Flatten(fs)
          /\ stream = NoStream
          /\ lock = NoThread
C33_StopReturnedAfterCloseError == StopAfterCloseRaised /\ audio # <<>>


\* C37: in the window the status shown matches the controller: while the
\* recording flag is set the status is 'recording', and the status is 'ready'
\* only while no recording is in progress.
C37_StatusMatchesRecording ==
    /\ winRecording => status = "recording"
    /\ status = "ready" => ~winRecording


\* C36: in the window the engine is never given a missing model: a recording
\* starts only while a model is loaded, and every buffer handed to a
\* transcription worker comes with a loaded model, also when the model is
\* reloaded between press and release.
RecordingStarts == ~winRecording /\ winRecording'
C36_EngineHasModel ==
    /\ [](\A j \in 1..Len(env.models) : env.models[j])
    /\ [][RecordingStarts => modelLoaded]_vars


\* C34: an empty transcription result reaches no output: in the command line
\* program nothing is written to stdout, typed or appended to the file, in
\* the window nothing is added to the history, set on the clipboard or typed;
\* the no-speech notice alone is shown and the controller is idle again.
Delivers == ui'.delivered = ui.delivered + 1
TextSinks == {"stdout", "wtype", "file", "stderr_ok"}
NoEmptyDelivered ==
    /\ \A i \in 1..Len(ui.items) : ui.items[i] # <<>>
    /\ \A i \in 1..Len(ui.rows) : ui.rows[i] # <<>>
    /\ \A i \in 1..Len(ui.clipSets) : ui.clipSets[i] # <<>>
    /\ \A i \in 1..Len(ui.threads) : ui.threads[i] # <<>>
    /\ \A i \in 1..Len(ui.typed) : ui.typed[i] # <<>>
    /\ \A i \in 1..Len(ui.out) : ui.out[i][1] \in TextSinks => ui.out[i][2] # <<>>
EmptyLeavesNoTrace ==
    (Delivers /\ ui'.text = <<>>) =>
        /\ status' = "ready"
        /\ pc' = pc
        /\ ui'.items = ui.items /\ ui'.rows = ui.rows /\ ui'.emptyLabel = ui.emptyLabel
        /\ ui'.clipSets = ui.clipSets /\ ui'.threads = ui.threads /\ ui'.typed = ui.typed
        /\ IF pc[Controller] = "dl_window"
             THEN ui'.toasts = Append(ui.toasts, "no_speech") /\ ui'.out = ui.out
             ELSE ui'.out = Append(ui.out, <<"stderr_no_speech", <<>>>>) /\ ui'.toasts = ui.toasts
Count(q, t) == Cardinality({i \in 1..Len(q) : q[i] = t})
ResultDeliveredOnce ==
    (Delivers /\ pc[Controller] = "dl_window" /\ ui'.text # <<>>) =>
        /\ ui'.items = <<ui'.text>> \o ui.items
        /\ ui'.clipSets = Append(ui.clipSets, ui'.text)
        /\ ui'.typed = ui.typed
        /\ ui'.threads = IF ui.autoType THEN Append(ui.threads, ui'.text) ELSE ui.threads
AttemptsWereStarted ==
    (ui'.typed # ui.typed) =>
        /\ Len(ui'.typed) = Len(ui.typed) + 1
        /\ Len(ui'.threads) = Len(ui.threads) - 1
        /\ \A t \in DeliverTexts :
              Count(ui'.typed, t) + Count(ui'.threads, t) = Count(ui.typed, t) + Count(ui.threads, t)
C35_ResultHistoryClipboardType ==
    /\ [](\A t \in DeliverTexts : Count(ui.typed, t) + Count(ui.threads, t) <= Count(ui.clipSets, t))
    /\ [][ResultDeliveredOnce /\ AttemptsWereStarted]_vars
C35_TypedOneOfTwo ==
    /\ Len(ui.clipSets) = 2 /\ Len(ui.items) = 2
    /\ Len(ui.typed) = 1 /\ ui.threads = <<>>
    /\ ~ui.autoType /\ ui.text # <<>> /\ ui.typed[1] # ui.text

\* C38: the history holds at most HISTORY_MAX entries, newest first; the
\* stored list and the rows shown hold the same entries, and after a clear
\* both are empty.
C38_HistoryBounded ==
    /\ Len(ui.items) <= HISTORY_MAX
    /\ Len(ui.rows) <= HISTORY_MAX
    /\ ui.rows = ui.items
    /\ ui.emptyLabel => (ui.rows = <<>> /\ ui.items = <<>>)


\* C39: in the command line program the terminal attributes saved at entry
\* are back on every exit from the loop (Ctrl+C while idle or recording, an
\* exception from start, from the transcription or from a sink), and while
\* the loop runs the terminal is in cbreak mode, also after every keystroke
\* injection attempt of the type mode.
CliLeaving == call[Controller] \in {"final_bye", "final_error"}
CliInLoop ==
    /\ ~CliLeaving
    /\ pc[Controller] \notin {"cli_load", "cli_type", "cli_exit", "cli_died"}
C39_TerminalRestored ==
    /\ CliLeaving => env.term = "inherited"
    /\ pc[Controller] \in {"cli_exit", "cli_died"} => env.term = "inherited"
    /\ CliInLoop => env.term = "cbreak"
C39_DiedAfterTyping ==
    /\ pc[Controller] = "cli_died"
    /\ cliMode = "type"
    /\ env.term = "inherited"
    /\ \E k \in 1..Len(sink) : sink[k][1] \in {"result", "sink_error"}

====
